---------------------------- MODULE Spec2Model ----------------------------
(***************************************************************************)
(* Distributed Imaging System (YukunZhan123/Voyis): the wire codecs of the *)
(* dis:: and voyis:: implementations, the three pipeline stages of each    *)
(* and the Sink's persistence gateway.                                     *)
(*                                                                         *)
(* Specifications: SpecCodec and SpecMessage (the codec and message test   *)
(* harnesses), Spec and FairSpec (the pipeline with failures, foreign      *)
(* publishers, stop signals and restarts), SpecIPC and FairSpecIPC (the    *)
(* transport test bench), SpecE2E and FairSpecE2E (the launch script),     *)
(* SpecSource and FairSpecSource (the Source alone, its output captured),  *)
(* SpecStore (the voyis Sink alone, fed keypoint and descriptor messages)  *)
(* and SpecMain (the command lines of the executables).                    *)
(*                                                                         *)
(* Unsigned machine integers are kept as little-endian limb sequences      *)
(* (one limb = one byte), which is both their in-memory layout on the      *)
(* reference platform and their wire layout: uint32_t is 4 limbs, uint64_t *)
(* and size_t are 8 limbs.  Arithmetic on them wraps at the type's width.  *)
(***************************************************************************)
EXTENDS Integers, Sequences, FiniteSets, TLC

VARIABLES
    cx,      \* codec harness: the value handed to the Serializer
    cbuf,    \* codec harness: the byte buffer
    cres,    \* codec harness: what the last deserialize call returned or threw
    cop,     \* codec harness: [step, kind, damage, decoder] of the run so far
    impl,        \* which of the two implementations the three processes run
    pc,          \* per stage process: where its main thread is
    running,     \* per stage: running_ (dis), g_running (voyis)
    gptr,        \* per stage: g_generator / g_extractor / g_logger is non-null
    publisher,   \* per publishing stage: its PUB socket is bound
    subscriber,  \* per subscribing stage: [open, linked, queue] of its SUB socket
    image_index, \* Source: position in image_paths_
    images_sent, \* Source: images_sent_
    fe_image,    \* Enricher: the Frame of the iteration in progress
    images_processed,          \* Enricher: images_processed_
    total_features_extracted,  \* Enricher: total_features_extracted_
    dl_data,     \* Sink: the EnrichedFrame of the iteration in progress
    cursor,      \* Sink: [image_id, next] inside the store call
    images_logged,    \* Sink: images_logged_
    keypoints_logged, \* Sink: keypoints_logged_
    db,          \* the database file: committed rows and AUTOINCREMENT sequences
    txn,         \* the connection's transaction: [active, work]
    sig,         \* per stage: signals raised at the process and what they did
    tags,        \* per origin: number of publish events so far
    derived,     \* Enricher: [from, out] for every Frame it transformed: the tags of
                 \* the Frame and of the EnrichedFrame published for it
    last,        \* per stage: [outcome, seen, run]: how its last iteration that was
                 \* not a timeout ended, the kinds of failure met so far in this
                 \* run, and the how-manieth run of the stage this is
    deployed,    \* the stage processes the operator starts
    budget,      \* what the environment may still do: [disturbances, foreign, frames]
    ipc,         \* the transport test bench: the calls in progress and what they returned
    os           \* what the operating system holds of each stage process: its
                 \* arguments, exit status and open handles, and the Source's
                 \* folder and output

cvars == <<cx, cbuf, cres, cop>>
procVars == <<pc, running, gptr>>
netVars == <<publisher, subscriber>>
srcVars == <<image_index, images_sent>>
enrVars == <<fe_image, images_processed, total_features_extracted, derived>>
snkVars == <<dl_data, cursor, images_logged, keypoints_logged, db, txn>>
pvars == <<impl, deployed, procVars, netVars, srcVars, enrVars, snkVars, sig, tags, last, budget>>
vars == <<cvars, pvars, ipc, os>>

(***************************************************************************)
(* Bounds of the model.                                                    *)
(***************************************************************************)
MaxIdLen == 1
MaxPayloadLen == 2
MaxDim == 2
MaxKeypoints == 1
MaxDescriptors == 1
MaxVectors == 2        \* descriptor vectors of a ProcessedImageMessage
MaxVectorLen == 2      \* floats of one descriptor vector
MaxArgs == 2           \* arguments on a stage's command line

(***************************************************************************)
(* Fixed-width unsigned arithmetic on limb sequences.                      *)
(***************************************************************************)
Byte == 0..255

RECURSIVE LE(_, _)
\* the k-limb little-endian image of the natural n (n mod 256^k)
LE(n, k) == IF k = 0 THEN <<>> ELSE <<n % 256>> \o LE(n \div 256, k - 1)

RECURSIVE ToNat(_)
\* the value of a limb sequence; used only on values already bounded by a buffer size
ToNat(a) == IF a = <<>> THEN 0 ELSE Head(a) + 256 * ToNat(Tail(a))

Zero(k) == [i \in 1..k |-> 0]

\* integral conversion uint32_t -> size_t
Widen(a, k) == a \o Zero(k - Len(a))

RECURSIVE AddC(_, _, _)
AddC(a, b, c) ==
    IF a = <<>> THEN <<>>
    ELSE LET s == Head(a) + Head(b) + c
         IN  <<s % 256>> \o AddC(Tail(a), Tail(b), s \div 256)

\* a + b modulo 256^Len(a)
AddLE(a, b) == AddC(a, b, 0)

RECURSIVE SubC(_, _, _)
SubC(a, b, c) ==
    IF a = <<>> THEN <<>>
    ELSE LET d == Head(a) - Head(b) - c
         IN  <<d % 256>> \o SubC(Tail(a), Tail(b), IF d < 0 THEN 1 ELSE 0)

\* a - b modulo 256^Len(a)
SubLE(a, b) == SubC(a, b, 0)

RECURSIVE MulSmallC(_, _, _)
MulSmallC(a, k, c) ==
    IF a = <<>> THEN <<>>
    ELSE LET p == Head(a) * k + c
         IN  <<p % 256>> \o MulSmallC(Tail(a), k, p \div 256)

\* a shifted up by i limbs, truncated to Len(a) limbs
ShiftTrunc(a, i) == SubSeq(Zero(i) \o a, 1, Len(a))

RECURSIVE MulAcc(_, _, _)
MulAcc(a, b, i) ==
    IF i > Len(b) THEN Zero(Len(a))
    ELSE AddLE(ShiftTrunc(MulSmallC(a, b[i], 0), i - 1), MulAcc(a, b, i + 1))

\* a * b modulo 256^Len(a)
MulLE(a, b) == MulAcc(a, b, 1)

RECURSIVE LtLE(_, _)
\* a < b, both of the same width
LtLE(a, b) ==
    IF a = <<>> THEN FALSE
    ELSE LET n == Len(a)
         IN  IF a[n] # b[n] THEN a[n] < b[n]
             ELSE LtLE(SubSeq(a, 1, n - 1), SubSeq(b, 1, n - 1))

GtLE(a, b) == LtLE(b, a)

U32(n) == LE(n, 4)
U64(n) == LE(n, 8)


(***************************************************************************)
(* Message types (message_types.hpp).                                      *)
(***************************************************************************)
HeaderSize == 64
KeypointSize == 28
FloatSize == 4

\* 0xDEADBEEF as it lies in memory
MESSAGE_MAGIC == <<239, 190, 173, 222>>
IMAGE == U32(1)
IMAGE_WITH_FEATURES == U32(2)

\* struct MessageHeader and its constructor's defaults
MessageHeader ==
    [magic |-> MESSAGE_MAGIC, type |-> IMAGE, payload_size |-> U64(0),
     timestamp |-> U64(0), width |-> U32(0), height |-> U32(0),
     channels |-> U32(0), filename_length |-> U32(0), reserved |-> Zero(24)]

\* struct ImageData and its constructor's defaults
ImageData ==
    [filename |-> <<>>, width |-> U32(0), height |-> U32(0),
     channels |-> U32(0), timestamp |-> U64(0), data |-> <<>>]

\* struct Keypoint: five floats (as bit patterns) and two int32_t
Keypoint(x, y, size, angle, response, octave, class_id) ==
    [x |-> x, y |-> y, size |-> size, angle |-> angle, response |-> response,
     octave |-> octave, class_id |-> class_id]

\* struct ImageWithFeatures and its defaults
ImageWithFeatures == [image |-> ImageData, keypoints |-> <<>>, descriptors |-> <<>>]

(***************************************************************************)
(* Serializer (serialization.hpp, serialization.cpp).                      *)
(***************************************************************************)
\* a header written without its reserved bytes
HeaderBytes_unreserved(h) ==
    h.magic \o h.type \o h.payload_size \o h.timestamp \o h.width \o h.height
      \o h.channels \o h.filename_length

\* the 64 bytes of a MessageHeader object, field after field, no padding
HeaderBytes(h) ==
    h.magic \o h.type \o h.payload_size \o h.timestamp \o h.width \o h.height
      \o h.channels \o h.filename_length \o h.reserved

\* std::memcpy(&header, data.data(), sizeof(MessageHeader))
ReadHeader(data) ==
    [magic |-> SubSeq(data, 1, 4), type |-> SubSeq(data, 5, 8),
     payload_size |-> SubSeq(data, 9, 16), timestamp |-> SubSeq(data, 17, 24),
     width |-> SubSeq(data, 25, 28), height |-> SubSeq(data, 29, 32),
     channels |-> SubSeq(data, 33, 36), filename_length |-> SubSeq(data, 37, 40),
     reserved |-> SubSeq(data, 41, 64)]

KeypointBytes(kp) ==
    kp.x \o kp.y \o kp.size \o kp.angle \o kp.response \o kp.octave \o kp.class_id

\* the Keypoint object lying at 0-based byte offset off of data
KeypointAt(data, off) ==
    Keypoint(SubSeq(data, off + 1, off + 4), SubSeq(data, off + 5, off + 8),
             SubSeq(data, off + 9, off + 12), SubSeq(data, off + 13, off + 16),
             SubSeq(data, off + 17, off + 20), SubSeq(data, off + 21, off + 24),
             SubSeq(data, off + 25, off + 28))

RECURSIVE Flatten(_)
Flatten(ss) == IF ss = <<>> THEN <<>> ELSE Head(ss) \o Flatten(Tail(ss))

\* write_to_buffer<uint32_t>
write_to_buffer(buffer, value) == buffer \o value

\* write_vector_to_buffer<Keypoint>
write_keypoints_to_buffer(buffer, vec) ==
    buffer \o Flatten([i \in 1..Len(vec) |-> KeypointBytes(vec[i])])

\* write_vector_to_buffer<float>
write_floats_to_buffer(buffer, vec) == buffer \o Flatten(vec)

\* serialize(const ImageData&) with payload_size counting the image bytes only
serialize_image_payload_only(image) ==
    LET header == [MessageHeader EXCEPT
                     !.type = IMAGE,
                     !.timestamp = image.timestamp,
                     !.width = image.width,
                     !.height = image.height,
                     !.channels = image.channels,
                     !.filename_length = U32(Len(image.filename)),
                     !.payload_size = U64(Len(image.data))]
    IN  HeaderBytes(header) \o image.filename \o image.data

\* Serializer::serialize(const ImageData&)
serialize_image(image) ==
    LET filename_length == U32(Len(image.filename))
        header == [MessageHeader EXCEPT
                     !.type = IMAGE,
                     !.timestamp = image.timestamp,
                     !.width = image.width,
                     !.height = image.height,
                     !.channels = image.channels,
                     !.filename_length = filename_length,
                     !.payload_size = AddLE(Widen(filename_length, 8),
                                            U64(Len(image.data)))]
    IN  HeaderBytes(header) \o image.filename \o image.data

\* Serializer::serialize(const ImageWithFeatures&)
serialize_image_with_features(f) ==
    LET keypoint_data_size == MulLE(U64(Len(f.keypoints)), U64(KeypointSize))
        descriptor_data_size == MulLE(U64(Len(f.descriptors)), U64(FloatSize))
        header == [MessageHeader EXCEPT
                     !.type = IMAGE_WITH_FEATURES,
                     !.timestamp = f.image.timestamp,
                     !.width = f.image.width,
                     !.height = f.image.height,
                     !.channels = f.image.channels,
                     !.filename_length = U32(Len(f.image.filename)),
                     !.payload_size =
                         AddLE(AddLE(AddLE(AddLE(AddLE(
                             U64(Len(f.image.filename)), U64(Len(f.image.data))),
                             U64(4)), keypoint_data_size),
                             U64(4)), descriptor_data_size)]
        b0 == HeaderBytes(header) \o f.image.filename \o f.image.data
        keypoint_count == U32(Len(f.keypoints))
        b1 == write_to_buffer(b0, keypoint_count)
        b2 == IF Len(f.keypoints) > 0 THEN write_keypoints_to_buffer(b1, f.keypoints)
              ELSE b1
        descriptor_count == U32(Len(f.descriptors))
        b3 == write_to_buffer(b2, descriptor_count)
    IN  IF Len(f.descriptors) > 0 THEN write_floats_to_buffer(b3, f.descriptors)
        ELSE b3

Thrown(msg) == [ok |-> FALSE, error |-> msg]
Returned(v) == [ok |-> TRUE, value |-> v]

\* structural checks that let bytes follow the payload_size bytes
DecodeImageBody_with_room(data, header) ==
    LET size == U64(Len(data))
        expected_size == AddLE(U64(HeaderSize), header.payload_size)
        offset0 == U64(HeaderSize)
        flen == Widen(header.filename_length, 8)
        offset1 == AddLE(offset0, flen)
        image_data_size == SubLE(header.payload_size, flen)
    IN  IF header.type # IMAGE THEN Thrown("Expected IMAGE message type")
        ELSE IF LtLE(size, expected_size) THEN Thrown("Data size mismatch")
        ELSE IF GtLE(AddLE(offset0, flen), size) THEN Thrown("Invalid filename length")
        ELSE IF AddLE(offset1, image_data_size) # size
             THEN Thrown("Invalid image data size")
        ELSE Returned([filename |-> SubSeq(data, HeaderSize + 1, ToNat(offset1)),
                       width |-> header.width,
                       height |-> header.height,
                       channels |-> header.channels,
                       timestamp |-> header.timestamp,
                       data |-> SubSeq(data, ToNat(offset1) + 1, Len(data))])

\* the structural checks of deserialize_image, shared with its variant below
DecodeImageBody(data, header) ==
    LET size == U64(Len(data))
        expected_size == AddLE(U64(HeaderSize), header.payload_size)
        offset0 == U64(HeaderSize)
        flen == Widen(header.filename_length, 8)
        offset1 == AddLE(offset0, flen)
        image_data_size == SubLE(header.payload_size, flen)
    IN  IF header.type # IMAGE THEN Thrown("Expected IMAGE message type")
        ELSE IF size # expected_size THEN Thrown("Data size mismatch")
        ELSE IF GtLE(AddLE(offset0, flen), size) THEN Thrown("Invalid filename length")
        ELSE IF AddLE(offset1, image_data_size) # size
             THEN Thrown("Invalid image data size")
        ELSE Returned([filename |-> SubSeq(data, HeaderSize + 1, ToNat(offset1)),
                       width |-> header.width,
                       height |-> header.height,
                       channels |-> header.channels,
                       timestamp |-> header.timestamp,
                       data |-> SubSeq(data, ToNat(offset1) + 1, Len(data))])

\* deserialize_image without the magic number validation
deserialize_image_no_magic(data) ==
    IF Len(data) < HeaderSize THEN Thrown("Data too small to contain header")
    ELSE DecodeImageBody(data, ReadHeader(data))

\* Serializer::deserialize_image
deserialize_image(data) ==
    IF Len(data) < HeaderSize THEN Thrown("Data too small to contain header")
    ELSE LET header == ReadHeader(data)
         IN  IF header.magic # MESSAGE_MAGIC
             THEN Thrown("Invalid magic number in header")
             ELSE DecodeImageBody(data, header)

\* read_from_buffer<uint32_t>: [ok, value, offset]
read_from_buffer(buffer, offset) ==
    IF GtLE(AddLE(offset, U64(4)), U64(Len(buffer)))
    THEN Thrown("Buffer underflow: not enough data to read")
    ELSE [ok |-> TRUE,
          value |-> SubSeq(buffer, ToNat(offset) + 1, ToNat(offset) + 4),
          offset |-> AddLE(offset, U64(4))]

FloatAt(data, off) == SubSeq(data, off + 1, off + 4)

\* a reader that takes the keypoints that are there
read_keypoints_that_fit(buffer, offset, count) ==
    LET room == (Len(buffer) - ToNat(offset)) \div KeypointSize
        fit == IF GtLE(count, U64(room)) THEN room ELSE ToNat(count)
    IN  [ok |-> TRUE,
         value |-> [i \in 1..fit |->
                       KeypointAt(buffer, ToNat(offset) + (i - 1) * KeypointSize)],
         offset |-> AddLE(offset, U64(fit * KeypointSize))]

\* read_vector_from_buffer<Keypoint>
read_keypoints_from_buffer(buffer, offset, count) ==
    LET bytes_needed == MulLE(count, U64(KeypointSize))
    IN  IF GtLE(AddLE(offset, bytes_needed), U64(Len(buffer)))
        THEN Thrown("Buffer underflow: not enough data for vector")
        ELSE [ok |-> TRUE,
              value |-> [i \in 1..ToNat(count) |->
                            KeypointAt(buffer, ToNat(offset) + (i - 1) * KeypointSize)],
              offset |-> AddLE(offset, bytes_needed)]

\* read_vector_from_buffer<float>
read_floats_from_buffer(buffer, offset, count) ==
    LET bytes_needed == MulLE(count, U64(FloatSize))
    IN  IF GtLE(AddLE(offset, bytes_needed), U64(Len(buffer)))
        THEN Thrown("Buffer underflow: not enough data for vector")
        ELSE [ok |-> TRUE,
              value |-> [i \in 1..ToNat(count) |->
                            FloatAt(buffer, ToNat(offset) + (i - 1) * FloatSize)],
              offset |-> AddLE(offset, bytes_needed)]

\* uint32_t * uint32_t * uint32_t, evaluated in unsigned int
ImageDataSize(header) == MulLE(MulLE(header.width, header.height), header.channels)

\* Serializer::deserialize_image_with_features
deserialize_image_with_features(data) ==
    IF Len(data) < HeaderSize THEN Thrown("Data too small to contain header")
    ELSE
    LET header == ReadHeader(data)
        size == U64(Len(data))
        offset0 == U64(HeaderSize)
        flen == Widen(header.filename_length, 8)
        offset1 == AddLE(offset0, flen)
        image_data_size == Widen(ImageDataSize(header), 8)
        offset2 == AddLE(offset1, image_data_size)
        kc == read_from_buffer(data, offset2)
        kps == IF kc.value # U32(0)
               THEN read_keypoints_from_buffer(data, kc.offset, Widen(kc.value, 8))
               ELSE [ok |-> TRUE, value |-> <<>>, offset |-> kc.offset]
        dc == read_from_buffer(data, kps.offset)
        ds == IF dc.value # U32(0)
              THEN read_floats_from_buffer(data, dc.offset, Widen(dc.value, 8))
              ELSE [ok |-> TRUE, value |-> <<>>, offset |-> dc.offset]
    IN  IF header.magic # MESSAGE_MAGIC THEN Thrown("Invalid magic number in header")
        ELSE IF header.type # IMAGE_WITH_FEATURES
             THEN Thrown("Expected IMAGE_WITH_FEATURES message type")
        ELSE IF GtLE(AddLE(offset0, flen), size) THEN Thrown("Invalid filename length")
        ELSE IF GtLE(AddLE(offset1, image_data_size), size)
             THEN Thrown("Invalid image data size")
        ELSE IF ~kc.ok THEN Thrown(kc.error)
        ELSE IF ~kps.ok THEN Thrown(kps.error)
        ELSE IF ~dc.ok THEN Thrown(dc.error)
        ELSE IF ~ds.ok THEN Thrown(ds.error)
        ELSE Returned([image |-> [filename |-> SubSeq(data, HeaderSize + 1, ToNat(offset1)),
                                  width |-> header.width,
                                  height |-> header.height,
                                  channels |-> header.channels,
                                  timestamp |-> header.timestamp,
                                  data |-> SubSeq(data, ToNat(offset1) + 1, ToNat(offset2))],
                       keypoints |-> kps.value,
                       descriptors |-> ds.value])


(***************************************************************************)
(* Messages of the voyis:: implementation (message.h, message.cpp):        *)
(* length-prefixed fields in the order of the struct, no header.           *)
(***************************************************************************)
\* struct KeyPoint: pt.x, pt.y, size, angle, response (floats as bit
\* patterns) and octave
KeyPoint(x, y, size, angle, response, octave) ==
    [x |-> x, y |-> y, size |-> size, angle |-> angle, response |-> response,
     octave |-> octave]

\* struct ImageMessage and its constructor's defaults
ImageMessage ==
    [image_id |-> <<>>, image_data |-> <<>>, format |-> <<>>,
     width |-> U32(0), height |-> U32(0), timestamp |-> U64(0)]

\* struct ProcessedImageMessage and its constructor's defaults
ProcessedImageMessage ==
    [image_id |-> <<>>, image_data |-> <<>>, format |-> <<>>,
     width |-> U32(0), height |-> U32(0), timestamp |-> U64(0),
     processed_timestamp |-> U64(0), keypoints |-> <<>>, descriptors |-> <<>>]

\* writeValue<T>: the object representation of value is appended
writeValue(buffer, value) == buffer \o value

\* writeString, writeBytes: uint32_t length, then the bytes
writeString(buffer, str) == writeValue(buffer, U32(Len(str))) \o str
writeBytes(buffer, bytes) == writeValue(buffer, U32(Len(bytes))) \o bytes

\* ImageMessage::serialize
ImageMessage_serialize(msg) ==
    LET b1 == writeString(<<>>, msg.image_id)
        b2 == writeBytes(b1, msg.image_data)
        b3 == writeString(b2, msg.format)
        b4 == writeValue(b3, msg.width)
        b5 == writeValue(b4, msg.height)
    IN  writeValue(b5, msg.timestamp)

\* ProcessedImageMessage::serialize
ProcessedImageMessage_serialize(msg) ==
    LET b1 == writeString(<<>>, msg.image_id)
        b2 == writeBytes(b1, msg.image_data)
        b3 == writeString(b2, msg.format)
        b4 == writeValue(b3, msg.width)
        b5 == writeValue(b4, msg.height)
        b6 == writeValue(b5, msg.timestamp)
        b7 == writeValue(b6, msg.processed_timestamp)
        b8 == writeValue(b7, U32(Len(msg.keypoints)))
        b9 == b8 \o Flatten([i \in 1..Len(msg.keypoints) |->
                      LET kp == msg.keypoints[i]
                      IN  kp.x \o kp.y \o kp.size \o kp.angle \o kp.response \o kp.octave])
        b10 == writeValue(b9, U32(Len(msg.descriptors)))
    IN  b10 \o Flatten([i \in 1..Len(msg.descriptors) |->
                   writeValue(<<>>, U32(Len(msg.descriptors[i])))
                       \o Flatten(msg.descriptors[i])])

\* readValue<T> with sizeof(T) = size, at 0-based position ptr of data:
\* [ok, value, ptr], or the exception
\* a read without the test of remaining: what lies behind the buffer is
\* taken as it comes (zero bytes here)
readValue_unchecked(data, ptr, size) ==
    [ok |-> TRUE,
     value |-> [i \in 1..size |-> IF ptr + i <= Len(data) THEN data[ptr + i] ELSE 0],
     ptr |-> ptr + size]
readValue(data, ptr, size) ==
    IF Len(data) - ptr < size THEN Thrown("Insufficient data to read value")
    ELSE [ok |-> TRUE, value |-> SubSeq(data, ptr + 1, ptr + size), ptr |-> ptr + size]

\* the bytes that follow a length that has been read
readCounted(data, length, error) ==
    IF ~length.ok THEN length
    ELSE IF LtLE(U64(Len(data) - length.ptr), Widen(length.value, 8)) THEN Thrown(error)
    ELSE [ok |-> TRUE,
          value |-> SubSeq(data, length.ptr + 1, length.ptr + ToNat(length.value)),
          ptr |-> length.ptr + ToNat(length.value)]

\* readString, readBytes: uint32_t length, then that many bytes
readString(data, ptr) ==
    readCounted(data, readValue(data, ptr, 4), "Insufficient data to read string")
readBytes(data, ptr) ==
    readCounted(data, readValue(data, ptr, 4), "Insufficient data to read bytes")

\* the read call for a member of the given type
readMember(data, ptr, type) ==
    CASE type = "string" -> readString(data, ptr)
      [] type = "bytes" -> readBytes(data, ptr)
      [] type \in {"int", "float", "uint32_t"} -> readValue(data, ptr, 4)
      [] type = "int64_t" -> readValue(data, ptr, 8)

\* the state of a deserialize call: [ok, ptr, msg] with the members assigned
\* so far, or the exception that ended it
Reading(msg, ptr) == [ok |-> TRUE, ptr |-> ptr, msg |-> msg]
Assigned(r, member, x) ==
    IF ~x.ok THEN x
    ELSE [ok |-> TRUE, ptr |-> x.ptr, msg |-> [r.msg EXCEPT ![member] = x.value]]

\* msg.member = read...(ptr, remaining);
Read(r, data, member, type) ==
    IF ~r.ok THEN r ELSE Assigned(r, member, readMember(data, r.ptr, type))

\* what the deserialize call returns or throws
Deserialized(r) == IF r.ok THEN Returned(r.msg) ELSE Thrown(r.error)

\* ImageMessage::deserialize; bytes after the last member are not looked at
ImageMessage_deserialize(data) ==
    Deserialized(
      Read(Read(Read(Read(Read(Read(Reading(ImageMessage, 0),
        data, "image_id", "string"),
        data, "image_data", "bytes"),
        data, "format", "string"),
        data, "width", "int"),
        data, "height", "int"),
        data, "timestamp", "int64_t"))

\* the body of the loop over num_keypoints
readKeyPoint(data, ptr) ==
    Read(Read(Read(Read(Read(Read(Reading(KeyPoint(<<>>, <<>>, <<>>, <<>>, <<>>, <<>>), ptr),
      data, "x", "float"),
      data, "y", "float"),
      data, "size", "float"),
      data, "angle", "float"),
      data, "response", "float"),
      data, "octave", "int")

\* the loop over num_keypoints; n is what is left of the uint32_t count
RECURSIVE readKeyPoints(_, _, _, _)
readKeyPoints(data, ptr, n, acc) ==
    IF n = U32(0) THEN [ok |-> TRUE, value |-> acc, ptr |-> ptr]
    ELSE LET kp == readKeyPoint(data, ptr)
         IN  IF ~kp.ok THEN kp
             ELSE readKeyPoints(data, kp.ptr, SubLE(n, U32(1)), Append(acc, kp.msg))

\* the loop over desc_size
RECURSIVE readFloats(_, _, _, _)
readFloats(data, ptr, n, acc) ==
    IF n = U32(0) THEN [ok |-> TRUE, value |-> acc, ptr |-> ptr]
    ELSE LET val == readValue(data, ptr, 4)
         IN  IF ~val.ok THEN val
             ELSE readFloats(data, val.ptr, SubLE(n, U32(1)), Append(acc, val.value))

\* a descriptor: desc_size, then the loop over it
readDescriptor_of_fixed_size(data, desc_size) ==
    IF ~desc_size.ok THEN desc_size
    ELSE readFloats(data, desc_size.ptr, U32(MaxVectorLen), <<>>)
readDescriptor(data, desc_size) ==
    IF ~desc_size.ok THEN desc_size
    ELSE readFloats(data, desc_size.ptr, desc_size.value, <<>>)

\* the loop over num_descriptors
RECURSIVE readDescriptors(_, _, _, _)
readDescriptors(data, ptr, n, acc) ==
    IF n = U32(0) THEN [ok |-> TRUE, value |-> acc, ptr |-> ptr]
    ELSE LET desc == readDescriptor(data, readValue(data, ptr, 4))
         IN  IF ~desc.ok THEN desc
             ELSE readDescriptors(data, desc.ptr, SubLE(n, U32(1)), Append(acc, desc.value))

\* the loop that follows num_keypoints or num_descriptors
readVector(data, count, member) ==
    IF ~count.ok THEN count
    ELSE IF member = "keypoints" THEN readKeyPoints(data, count.ptr, count.value, <<>>)
    ELSE readDescriptors(data, count.ptr, count.value, <<>>)

\* the members after processed_timestamp: the count, then the elements
ReadFeatures(r, data, member) ==
    IF ~r.ok THEN r
    ELSE Assigned(r, member, readVector(data, readValue(data, r.ptr, 4), member))

\* ProcessedImageMessage::deserialize
ProcessedImageMessage_deserialize(data) ==
    Deserialized(
      ReadFeatures(ReadFeatures(
      Read(Read(Read(Read(Read(Read(Read(Reading(ProcessedImageMessage, 0),
        data, "image_id", "string"),
        data, "image_data", "bytes"),
        data, "format", "string"),
        data, "width", "int"),
        data, "height", "int"),
        data, "timestamp", "int64_t"),
        data, "processed_timestamp", "int64_t"),
        data, "keypoints"),
        data, "descriptors"))

(***************************************************************************)
(* Codec harness: a value is drawn, serialized, optionally damaged in one  *)
(* place, and handed to one of the two deserialize functions.              *)
(***************************************************************************)
IdBytes(n) == [i \in 1..n |-> 96 + i]
PayloadBytes(n) == [i \in 1..n |-> 10 + i]
SampleKeypoint(i) ==
    Keypoint(U32(100 + i), U32(110 + i), U32(120 + i), U32(130 + i),
             U32(140 + i), U32(i), <<255, 255, 255, 255>>)
SampleKeypoints(n) == [i \in 1..n |-> SampleKeypoint(i)]
SampleDescriptors(n) == [i \in 1..n |-> U32(200 + i)]

\* width, height, channels; the last triple's product is 2^32
Dims ==
    {<<U32(w), U32(h), U32(c)>> : w \in 0..MaxDim, h \in 0..1, c \in {1, 3}}
      \cup {<<U32(65536), U32(65536), U32(1)>>}

Timestamps == {U64(12345), [i \in 1..8 |-> 255]}

FrameInputs ==
    {[filename |-> IdBytes(n), width |-> d[1], height |-> d[2], channels |-> d[3],
      timestamp |-> t, data |-> PayloadBytes(m)] :
        n \in 0..MaxIdLen, m \in 0..MaxPayloadLen, d \in Dims, t \in Timestamps}

EnrichedInputs ==
    {[image |-> img, keypoints |-> SampleKeypoints(k), descriptors |-> SampleDescriptors(q)] :
        img \in FrameInputs, k \in 0..MaxKeypoints, q \in 0..MaxDescriptors}

(***************************************************************************)
(* The pipeline: three stage processes (Source = image generator,          *)
(* Enricher = feature extractor, Sink = data logger), the PUB/SUB sockets  *)
(* between them, the stop signal and the Sink's database.                  *)
(***************************************************************************)
NumFiles == 2          \* image files in the Source's folder
MaxFrames == 2         \* Frames the Source publishes in one behaviour
MaxQueue == 2          \* messages a SUB socket holds before the PUB side drops
MaxDisturbances == 2   \* injected failures, stop signals and restarts in one behaviour
MaxForeign == 2        \* messages sent by a publisher that is not a stage
DescriptorCols == 2    \* columns of the detector's descriptor matrix

Stages == {"source", "enricher", "sink"}
Publishers == {"source", "enricher"}
Subscribers == {"enricher", "sink"}
Upstream(s) == IF s = "sink" THEN "enricher" ELSE "source"
Downstream(s) == IF s = "source" THEN "enricher" ELSE "sink"

NoSocket == [open |-> FALSE, linked |-> FALSE, queue |-> <<>>]
NoSignal == [flagSet |-> FALSE, whileRunning |-> FALSE, early |-> FALSE]
NoImage == [tag |-> <<"none", 0>>]
Failures ==
    {"ctor_error", "load_error", "send_error", "recv_error", "decode_error",
     "transform_error", "publish_error", "store_error"}
NoOutcome == [outcome |-> "none", seen |-> {}, run |-> 0]
Ended(l, outcome) ==
    IF outcome = "timeout" THEN l
    ELSE [l EXCEPT !.outcome = outcome, !.seen = @ \cup ({outcome} \cap Failures)]
NoCursor == [image_id |-> 0, next |-> 0, before |-> <<>>]

\* Idle until run() has set the flag, Running inside the loop, Stopped after it
StageState(s) ==
    CASE pc[s] \in {"off", "ctor", "ready"} -> "Idle"
      [] pc[s] = "stopped" -> "Stopped"
      [] pc[s] = "failed" -> "Failed"
      [] OTHER -> "Running"

(***************************************************************************)
(* The process of a stage as the operating system sees it: argv, the exit  *)
(* status (-1 while there is none), the call whose failure ended it, and   *)
(* the handles the program acquired and has not released itself.  What is still held when the process has   *)
(* exited was never released by the program.  The Source's folder is the   *)
(* order in which the directory iterator yields its files, and out is what *)
(* the Source wrote to its terminal, one line per publish attempt, kept    *)
(* when the output is captured.                                            *)
(***************************************************************************)
Resources == {"publisher", "subscriber", "db"}

\* the directory iterator yields the files in no particular order
Unsorted == [i \in 1..NumFiles |-> NumFiles + 1 - i]

\* std::string's operator< on two paths of the folder: file i is named by the
\* one byte 96 + i
PathLess(a, b) == a < b

\* ImageGenerator::load_image_paths: the directory is listed in the order the
\* file system returns its entries, then std::sort
load_image_paths_unsorted(folder) == folder
load_image_paths(folder) == SortSeq(folder, PathLess)

\* collectImageFiles of image_generator/main.cpp
collectImageFiles(folder) == SortSeq(folder, PathLess)

OsIdle ==
    [argv |-> [s \in Stages |-> IF s = "source" THEN <<"images">> ELSE <<>>],
     status |-> [s \in Stages |-> -1],
     printed |-> [s \in Stages |-> "nothing"],
     threw |-> [s \in Stages |-> "nothing"],
     held |-> [s \in Stages |-> {}],
     folder |-> Unsorted,
     paths |-> <<>>,
     capture |-> FALSE,
     out |-> <<>>]

\* one step of a constructor: what it acquires when it succeeds, what it
\* leaves allocated when it fails, and what is released while its exception
\* unwinds (members and locals that are already constructed)
Step(call, acquires, leaves, unwinds) ==
    [call |-> call, acquires |-> acquires, leaves |-> leaves, unwinds |-> unwinds]

\* the constructor of the stage object (dis) and the set-up part of main
\* (voyis).  A Publisher or Subscriber constructor that fails has closed its
\* socket and context itself; sqlite3_open leaves a handle also when it
\* fails, and nothing on the way of a constructor's exception closes it.
Construction(s) ==
    IF impl = "dis"
    THEN CASE s = "source" ->
                <<Step("load_image_paths", {}, {}, {}),
                  Step("Publisher", {"publisher"}, {}, {})>>
           [] s = "enricher" ->
                <<Step("Subscriber", {"subscriber"}, {}, {}),
                  Step("Publisher", {"publisher"}, {}, {"subscriber"}),
                  Step("SIFT::create", {}, {}, {"subscriber", "publisher"})>>
           [] s = "sink" ->
                <<Step("Subscriber", {"subscriber"}, {}, {}),
                  Step("sqlite3_open", {"db"}, {"db"}, {"subscriber"}),
                  Step("init_database", {}, {}, {"subscriber"})>>
    ELSE CASE s = "source" ->
                <<Step("collectImageFiles", {}, {}, {}),
                  Step("Publisher", {"publisher"}, {}, {})>>
           [] s = "enricher" ->
                <<Step("Subscriber", {"subscriber"}, {}, {}),
                  Step("Publisher", {"publisher"}, {}, {"subscriber"})>>
           [] s = "sink" ->
                <<Step("sqlite3_open", {"db"}, {"db"}, {}),
                  Step("createTables", {}, {}, {}),
                  Step("Subscriber", {"subscriber"}, {}, {"db"})>>

\* what the stage holds when its construction has succeeded
Constructed(s) ==
    UNION {Construction(s)[i].acquires : i \in DOMAIN Construction(s)}

\* what the process still holds when step number at has thrown
AfterThrow(s, at) ==
    ((UNION {Construction(s)[i].acquires : i \in 1..(at - 1)})
        \cup Construction(s)[at].leaves) \ Construction(s)[at].unwinds

\* what the end of main releases after the loop: the stage object's destructor
\* closes db_ and those of its members close the sockets (dis), the locals
\* of main are destroyed (voyis)
Destroyed(s) == Constructed(s)

\* an exit status that tells nothing
\* the Source's output: one line per publish attempt, naming the file, how
\* the attempt ended and the id given to the Frame
Logged(path, outcome, id) ==
    IF os.capture
    THEN [os EXCEPT !.out = Append(@, [path |-> path, outcome |-> outcome, id |-> id])]
    ELSE os

Exited_with_success(s, code, unreleased) ==
    [os EXCEPT !.status[s] = 0, !.held[s] = unreleased]

\* main returns code (1 from its catch block, 0 after run()): the process has
\* ended with that exit status, holding unreleased
Exited(s, code, unreleased) ==
    [os EXCEPT !.status[s] = code, !.held[s] = unreleased]

(***************************************************************************)
(* SQLite as the Sink uses it: one connection, a committed image of the    *)
(* file and, inside a transaction, a working image that COMMIT installs    *)
(* and ROLLBACK discards.  Outside a transaction every statement commits   *)
(* by itself.                                                              *)
(***************************************************************************)
EmptyDb ==
    [images |-> <<>>, keypoints |-> <<>>, descriptors |-> <<>>,
     seq |-> [images |-> 0, keypoints |-> 0, descriptors |-> 0]]
NoTxn == [active |-> FALSE, work |-> EmptyDb]

\* what a statement on the connection reads and writes
View == IF txn.active THEN txn.work ELSE db

\* INSERT into an AUTOINCREMENT table: the row gets the next id
Inserted(d, table, row) ==
    LET id == d.seq[table] + 1
    IN  [d EXCEPT ![table] = Append(@, [row EXCEPT !.id = id]),
                  !.seq[table] = id]

\* the next state of <<db, txn>> after a statement that succeeds
AfterBegin_autocommit == <<db, txn>>
AfterBegin == <<db, [active |-> TRUE, work |-> db]>>
\* child rows written past the transaction
AfterInsert_children_direct(table, row) ==
    IF txn.active /\ table = "images"
    THEN <<db, [txn EXCEPT !.work = Inserted(@, table, row)]>>
    ELSE <<Inserted(db, table, row), txn>>
AfterInsert(table, row) ==
    IF txn.active THEN <<db, [txn EXCEPT !.work = Inserted(@, table, row)]>>
    ELSE <<Inserted(db, table, row), txn>>
AfterCommit == <<txn.work, NoTxn>>
AfterRollback_nothing == <<db, txn>>
AfterRollback == <<db, NoTxn>>

\* the outcomes of one statement: it succeeds, it fails and leaves the
\* transaction as it was, or it fails and SQLite has rolled the transaction back
SqlOutcomes ==
    {"ok"} \cup (IF budget.disturbances > 0 THEN {"error", "error_rolled_back"} ELSE {})
\* a statement that reports a failure after its transaction went through
AfterFailure_committed(outcome) == <<View, NoTxn>>
AfterFailure(outcome) ==
    IF outcome = "error_rolled_back" THEN <<db, NoTxn>> ELSE <<db, txn>>

(***************************************************************************)
(* ZeroMQ PUB/SUB.  A message is [bytes, tag]; the tag names the publish   *)
(* event (who published, and the how-manieth message of that origin it is) *)
(* and is not on the wire.                                                 *)
(***************************************************************************)
Origins == {"source", "enricher", "foreign"}
NextTag(o) == <<o, tags[o] + 1>>
Tagged(o) == [tags EXCEPT ![o] = @ + 1]

\* a socket that keeps messages for a peer that has not connected yet
Publish_queued(p, msg) ==
    LET d == Downstream(p)
    IN  IF subscriber[d].open /\ Len(subscriber[d].queue) < MaxQueue
        THEN [subscriber EXCEPT ![d].queue = Append(@, msg)]
        ELSE subscriber

\* zmq_send on a PUB socket: the message reaches the peers connected now
Publish(p, msg) ==
    LET d == Downstream(p)
    IN  IF subscriber[d].linked /\ Len(subscriber[d].queue) < MaxQueue
        THEN [subscriber EXCEPT ![d].queue = Append(@, msg)]
        ELSE subscriber

\* the connection of a SUB socket to the publisher bound at its endpoint
Link(s) ==
    /\ s \in Subscribers
    /\ subscriber[s].open /\ ~subscriber[s].linked
    /\ publisher[Upstream(s)]
    /\ subscriber' = [subscriber EXCEPT ![s].linked = TRUE]
    /\ UNCHANGED <<cvars, ipc, os, impl, deployed, procVars, publisher, srcVars, enrVars, snkVars,
                   sig, tags, last, budget>>

\* process exit: the stage object is destroyed and its sockets are closed
ProcessExit(s, to) ==
    /\ pc' = [pc EXCEPT ![s] = to]
    /\ publisher' = [p \in Publishers |-> IF p = s THEN FALSE ELSE publisher[p]]
    /\ subscriber' =
         [u \in Subscribers |->
            IF u = s THEN NoSocket
            ELSE IF Upstream(u) = s THEN [subscriber[u] EXCEPT !.linked = FALSE]
            ELSE subscriber[u]]

\* main() up to the construction of the stage object
(***************************************************************************)
(* main of the three dis:: executables: the command line.  argv is the     *)
(* command line without the program name, so argv[i] here is argv[i] of    *)
(* main.                                                                   *)
(***************************************************************************)
\* the options that take a value, per executable, and what the value must be
Options(s) ==
    CASE s = "source" -> [o \in {"--endpoint", "--delay"} |->
                             IF o = "--delay" THEN "non-negative" ELSE "string"]
      [] s = "enricher" -> [o \in {"--sub-endpoint", "--pub-endpoint", "--timeout"} |->
                             IF o = "--timeout" THEN "positive" ELSE "string"]
      [] s = "sink" -> [o \in {"--endpoint", "--database", "--timeout"} |->
                             IF o = "--timeout" THEN "positive" ELSE "string"]

\* std::stoi on the words of the model: the int, or std::invalid_argument
stoi(str) ==
    CASE str = "100" -> Returned(100)
      [] str = "0" -> Returned(0)
      [] str = "-1" -> Returned(0 - 1)
      [] OTHER -> Thrown("invalid_argument")

\* what main returns before the stage is made, or status -1 when it goes on
\* to make the stage
ReturnStatus(status, printed) == [status |-> status, printed |-> printed]

\* the loop over the options, from argv[i] on
RECURSIVE parse_arguments(_, _, _)
parse_arguments(s, argv, i) ==
    IF i > Len(argv) THEN ReturnStatus(0 - 1, "nothing")
    ELSE IF argv[i] \in {"--help", "-h"} THEN ReturnStatus(0, "usage")
    ELSE IF argv[i] \notin DOMAIN Options(s) THEN ReturnStatus(1, "error and usage")
    ELSE IF i + 1 > Len(argv) THEN ReturnStatus(1, "error")
    ELSE IF Options(s)[argv[i]] = "string" THEN parse_arguments(s, argv, i + 2)
    ELSE LET n == stoi(argv[i + 1])
         IN  IF ~n.ok THEN ReturnStatus(1, "error")
             ELSE IF n.value < (IF Options(s)[argv[i]] = "positive" THEN 1 ELSE 0)
                  THEN ReturnStatus(1, "error")
             ELSE parse_arguments(s, argv, i + 2)

\* main up to the signal handlers: the Source takes argv[1] as its folder
\* and reads options from argv[2] on, the others read options from argv[1] on
main(s, argv) ==
    IF s = "source"
    THEN IF argv = <<>> THEN ReturnStatus(1, "error and usage")
         ELSE parse_arguments(s, argv, 2)
    ELSE parse_arguments(s, argv, 1)

\* fs::exists(image_folder_) && fs::is_directory(image_folder_)
FolderExists(argv) == argv # <<>> /\ argv[1] = "images"

\* main returns from inside the loop over the options
ReturnFromMain(s, r) ==
    /\ s \in deployed
    /\ pc[s] \in {"off", "stopped", "failed"}
    /\ pc[s] # "off" => budget.disturbances > 0
    /\ budget' = IF pc[s] = "off" THEN budget ELSE [budget EXCEPT !.disturbances = @ - 1]
    /\ pc' = [pc EXCEPT ![s] = IF r.status = 0 THEN "stopped" ELSE "failed"]
    /\ last' = [last EXCEPT ![s] = [NoOutcome EXCEPT !.run = last[s].run + 1]]
    /\ os' = [os EXCEPT !.status[s] = r.status, !.printed[s] = r.printed,
                         !.threw[s] = "nothing", !.held[s] = {}]
    /\ UNCHANGED <<running, gptr, sig>>

Launch(s) ==
    /\ s \in deployed
    /\ pc[s] \in {"off", "stopped", "failed"}
    /\ pc[s] # "off" => budget.disturbances > 0
    /\ budget' = IF pc[s] = "off" THEN budget ELSE [budget EXCEPT !.disturbances = @ - 1]
    /\ pc' = [pc EXCEPT ![s] = "ctor"]
    /\ running' = [running EXCEPT ![s] = (impl = "voyis")]
    /\ gptr' = [gptr EXCEPT ![s] = FALSE]
    /\ sig' = [sig EXCEPT ![s] = NoSignal]
    /\ last' = [last EXCEPT ![s] = [NoOutcome EXCEPT !.run = last[s].run + 1]]
    /\ os' = [os EXCEPT !.status[s] = -1, !.printed[s] = "nothing",
                         !.threw[s] = "nothing", !.held[s] = {},
                         !.paths = IF s = "source" THEN <<>> ELSE @,
                         !.out = IF s = "source" THEN <<>> ELSE @]

\* a failure the environment may inject while its budget lasts
Faulty(outcome) ==
    outcome \in {"ctor_error", "load_error", "send_error", "recv_error",
                 "transform_error", "publish_error", "error", "error_rolled_back"}
Spend(outcome) ==
    IF Faulty(outcome) THEN [budget EXCEPT !.disturbances = @ - 1] ELSE budget
MayFail(errors) == IF budget.disturbances > 0 THEN errors ELSE {}

\* a handler that also tears the stage's endpoints down
signal_handler_closing(s) ==
    /\ impl = "dis"
    /\ pc[s] \notin {"off", "stopped", "failed"}
    /\ budget.disturbances > 0
    /\ budget' = [budget EXCEPT !.disturbances = @ - 1]
    /\ running' = [running EXCEPT ![s] = IF gptr[s] THEN FALSE ELSE @]
    /\ sig' = [sig EXCEPT ![s] =
                 [flagSet |-> @.flagSet \/ gptr[s],
                  whileRunning |-> @.whileRunning \/ StageState(s) = "Running",
                  early |-> @.early \/ StageState(s) = "Idle"]]
    /\ publisher' = [p \in Publishers |-> IF p = s THEN FALSE ELSE publisher[p]]
    /\ subscriber' = [u \in Subscribers |-> IF u = s THEN NoSocket ELSE subscriber[u]]
    /\ UNCHANGED <<cvars, ipc, os, impl, deployed, pc, gptr, srcVars, enrVars,
                   snkVars, tags, last>>

(***************************************************************************)
(* The stop signal.                                                        *)
(***************************************************************************)
\* dis: if (g_stage) g_stage->stop();    stop(): running_ = false
signal_handler(s) ==
    /\ impl = "dis"
    /\ pc[s] \notin {"off", "stopped", "failed"}
    /\ budget.disturbances > 0
    /\ budget' = [budget EXCEPT !.disturbances = @ - 1]
    /\ running' = [running EXCEPT ![s] = IF gptr[s] THEN FALSE ELSE @]
    /\ sig' = [sig EXCEPT ![s] =
                 [flagSet |-> @.flagSet \/ gptr[s],
                  whileRunning |-> @.whileRunning \/ StageState(s) = "Running",
                  early |-> @.early \/ StageState(s) = "Idle"]]
    /\ UNCHANGED <<cvars, ipc, os, impl, deployed, pc, gptr, netVars, srcVars, enrVars,
                   snkVars, tags, last>>

(***************************************************************************)
(* Source: dis::ImageGenerator.                                            *)
(***************************************************************************)
\* the files of the image folder in sorted order; the third one is empty
FileName(i) == <<96 + i>>
FileData(i) == IF i = 3 THEN <<>> ELSE [j \in 1..3 |-> 10 * i + j]
Now == U64(1000)

load_image_file(i) ==
    [filename |-> FileName(i), width |-> U32(0), height |-> U32(0),
     channels |-> U32(0), timestamp |-> Now, data |-> FileData(i)]
(***************************************************************************)
(* The messages of the model.  Each table holds, for every value the       *)
(* function can be applied to in a behaviour, what the function returns.   *)
(***************************************************************************)
\* FeatureExtractor::process_image on a decoded w x 1 colour image in which
\* the detector found k keypoints
process_image_restamped(img, w, k) ==
    [image |-> [img EXCEPT !.width = U32(w), !.height = U32(1), !.channels = U32(3),
                           !.timestamp = AddLE(Now, U64(1))],
     keypoints |-> SampleKeypoints(k),
     descriptors |-> SampleDescriptors(k * DescriptorCols)]
process_image(img, w, k) ==
    [image |-> [img EXCEPT !.width = U32(w), !.height = U32(1), !.channels = U32(3)],
     keypoints |-> SampleKeypoints(k),
     descriptors |-> SampleDescriptors(k * DescriptorCols)]

\* what a publisher outside the pipeline sends to a stage
ForeignFrame(i) == serialize_image(load_image_file(i))
ForeignEnrichedFrame(k) ==
    serialize_image_with_features(
        [image |-> [load_image_file(1) EXCEPT
                      !.width = U32(1), !.height = U32(1), !.channels = U32(3)],
         keypoints |-> SampleKeypoints(k),
         descriptors |-> SampleDescriptors(k * DescriptorCols)])
ForeignMessages(s) ==
    IF s = "enricher"
    THEN {ForeignFrame(1), ForeignFrame(3), Zero(HeaderSize), <<>>}
    ELSE {ForeignEnrichedFrame(0), ForeignEnrichedFrame(MaxKeypoints),
          Zero(HeaderSize), ForeignFrame(1)}

\* the function f as the table of its values
Tabulated(f) == f @@ <<>>

\* Serializer::serialize on the files of the Source's folder
image_wire == Tabulated([i \in 1..NumFiles |-> serialize_image(load_image_file(i))])

\* Serializer::deserialize_image on what the Enricher's socket can hold
image_read ==
    Tabulated([bytes \in ({image_wire[i] : i \in 1..NumFiles}
                             \cup ForeignMessages("enricher")) \ {<<>>} |->
                  deserialize_image(bytes)])

\* Serializer::serialize on what process_image returns
features_wire ==
    Tabulated([x \in {image_read[bytes].value :
                        bytes \in {b \in DOMAIN image_read : image_read[b].ok}}
                      \X (1..MaxDim) \X (0..MaxKeypoints) |->
                  serialize_image_with_features(process_image(x[1], x[2], x[3]))])

\* Serializer::deserialize_image_with_features on what the Sink's socket can hold
features_read ==
    Tabulated([bytes \in ({features_wire[x] : x \in DOMAIN features_wire}
                             \cup ForeignMessages("sink")) \ {<<>>} |->
                  deserialize_image_with_features(bytes)])

IG_main ==
    /\ impl = "dis"
    /\ IF main("source", os.argv["source"]).status = -1
       THEN /\ Launch("source")
            /\ image_index' = 0 /\ images_sent' = 0
       ELSE /\ ReturnFromMain("source", main("source", os.argv["source"]))
            /\ UNCHANGED srcVars
    /\ UNCHANGED <<cvars, ipc, impl, deployed, netVars, enrVars, snkVars, tags>>

\* ImageGenerator::ImageGenerator, then g_generator is assigned
IG_ctor ==
    /\ impl = "dis" /\ pc["source"] = "ctor"
    /\ \E outcome \in (IF FolderExists(os.argv["source"])
                        THEN {"ok"} \cup MayFail({"ctor_error"}) ELSE {"ctor_error"}),
          at \in DOMAIN Construction("source") :
         /\ (outcome = "ok" \/ ~FolderExists(os.argv["source"])) => at = 1
         /\ IF outcome = "ok"
            THEN /\ publisher' = [publisher EXCEPT !["source"] = TRUE]
                 /\ pc' = [pc EXCEPT !["source"] = "ready"]
                 /\ os' = [os EXCEPT !.held["source"] = Constructed("source"),
                                      !.paths = load_image_paths(os.folder)]
                 /\ gptr' = [gptr EXCEPT !["source"] = TRUE]
                 /\ UNCHANGED subscriber
            ELSE /\ ProcessExit("source", "failed")
                 /\ os' = [Exited("source", 1, AfterThrow("source", at)) EXCEPT
                             !.threw["source"] = Construction("source")[at].call]
                 /\ UNCHANGED gptr
         /\ budget' = IF FolderExists(os.argv["source"]) THEN Spend(outcome) ELSE budget
         /\ last' = [last EXCEPT !["source"] = Ended(@, outcome)]
    /\ UNCHANGED <<cvars, ipc, impl, deployed, running, srcVars, enrVars, snkVars, sig, tags>>

\* ImageGenerator::run, first statement
IG_run ==
    /\ impl = "dis" /\ pc["source"] = "ready"
    /\ running' = [running EXCEPT !["source"] = TRUE]
    /\ pc' = [pc EXCEPT !["source"] = "check"]
    /\ image_index' = 0
    /\ UNCHANGED <<cvars, ipc, os, impl, deployed, gptr, netVars, images_sent, enrVars, snkVars,
                   sig, tags, last, budget>>

\* while (running_)
IG_loop_check ==
    /\ impl = "dis" /\ pc["source"] = "check"
    /\ IF running["source"]
       THEN /\ budget.frames > 0
            /\ pc' = [pc EXCEPT !["source"] = "body"]
            /\ UNCHANGED <<netVars, os>>
       ELSE /\ ProcessExit("source", "stopped")
            /\ os' = Exited("source", 0, os.held["source"] \ Destroyed("source"))
    /\ UNCHANGED <<cvars, ipc, impl, deployed, running, gptr, srcVars, enrVars, snkVars,
                   sig, tags, last, budget>>

\* publish_image(image_paths_[image_index]); the index moves on; sleep
IG_publish_image ==
    /\ impl = "dis" /\ pc["source"] = "body"
    /\ \E outcome \in {"sent"} \cup MayFail({"load_error", "send_error"}) :
         /\ os' = Logged(os.paths[image_index + 1], outcome,
                         load_image_file(os.paths[image_index + 1]).filename)
         /\ IF outcome = "sent"
            THEN /\ subscriber' =
                      Publish("source",
                              [bytes |-> image_wire[os.paths[image_index + 1]],
                               tag |-> NextTag("source")])
                 /\ images_sent' = images_sent + 1
                 /\ tags' = Tagged("source")
                 /\ budget' = [budget EXCEPT !.frames = @ - 1]
            ELSE /\ budget' = Spend(outcome)
                 /\ UNCHANGED <<subscriber, images_sent, tags>>
         /\ last' = [last EXCEPT !["source"] = Ended(@, outcome)]
    /\ image_index' = (image_index + 1) % NumFiles
    /\ pc' = [pc EXCEPT !["source"] = "check"]
    /\ UNCHANGED <<cvars, ipc, impl, deployed, running, gptr, publisher, enrVars, snkVars, sig>>

(***************************************************************************)
(* dis::Subscriber.                                                        *)
(***************************************************************************)
\* Subscriber::Impl::receive with ZMQ_RCVTIMEO set: a message if one is
\* queued, else EAGAIN when the timeout elapses; any other errno is thrown
receive_blocking(s) ==
    (IF subscriber[s].queue = <<>> THEN {} ELSE {"message"})
        \cup MayFail({"recv_error"})
receive(s) ==
    (IF subscriber[s].queue = <<>> THEN {"timeout"} ELSE {"message"})
        \cup MayFail({"recv_error"})

\* the socket after the call
Received_peek(s, outcome) == subscriber
Received(s, outcome) ==
    IF outcome = "message" THEN [subscriber EXCEPT ![s].queue = Tail(@)]
    ELSE subscriber

\* Subscriber::receive_image: an empty vector gives a default ImageData
receive_image(outcome) ==
    LET bytes == IF outcome = "message" THEN Head(subscriber["enricher"].queue).bytes
                 ELSE <<>>
    IN  IF bytes = <<>> THEN Returned(ImageData) ELSE image_read[bytes]

\* Subscriber::receive_image_with_features
receive_image_with_features(outcome) ==
    LET bytes == IF outcome = "message" THEN Head(subscriber["sink"].queue).bytes
                 ELSE <<>>
    IN  IF bytes = <<>> THEN Returned(ImageWithFeatures)
        ELSE features_read[bytes]

(***************************************************************************)
(* Enricher: dis::FeatureExtractor.                                        *)
(***************************************************************************)
\* an exception thrown in the body of the while loop of run(): the loop's own
\* catch block, after which the loop condition is evaluated again
FE_catch_escapes == "failed"
FE_catch == "check"

FE_main ==
    /\ impl = "dis"
    /\ IF main("enricher", os.argv["enricher"]).status = -1
       THEN /\ Launch("enricher")
            /\ fe_image' = NoImage
            /\ images_processed' = 0 /\ total_features_extracted' = 0
       ELSE /\ ReturnFromMain("enricher", main("enricher", os.argv["enricher"]))
            /\ UNCHANGED <<fe_image, images_processed, total_features_extracted>>
    /\ UNCHANGED <<cvars, ipc, impl, deployed, netVars, srcVars, derived, snkVars, tags>>

\* FeatureExtractor::FeatureExtractor, then g_extractor is assigned
FE_ctor ==
    /\ impl = "dis" /\ pc["enricher"] = "ctor"
    /\ \E outcome \in {"ok"} \cup MayFail({"ctor_error"}),
          at \in DOMAIN Construction("enricher") :
         /\ outcome = "ok" => at = 1
         /\ IF outcome = "ok"
            THEN /\ subscriber' = [subscriber EXCEPT !["enricher"] =
                                     [open |-> TRUE, linked |-> FALSE, queue |-> <<>>]]
                 /\ publisher' = [publisher EXCEPT !["enricher"] = TRUE]
                 /\ pc' = [pc EXCEPT !["enricher"] = "ready"]
                 /\ os' = [os EXCEPT !.held["enricher"] = Constructed("enricher")]
                 /\ gptr' = [gptr EXCEPT !["enricher"] = TRUE]
            ELSE /\ ProcessExit("enricher", "failed")
                 /\ os' = [Exited("enricher", 1, AfterThrow("enricher", at)) EXCEPT
                             !.threw["enricher"] = Construction("enricher")[at].call]
                 /\ UNCHANGED gptr
         /\ budget' = Spend(outcome)
         /\ last' = [last EXCEPT !["enricher"] = Ended(@, outcome)]
    /\ UNCHANGED <<cvars, ipc, impl, deployed, running, srcVars, enrVars, snkVars, sig, tags>>

\* FeatureExtractor::run, first statement
FE_run ==
    /\ impl = "dis" /\ pc["enricher"] = "ready"
    /\ running' = [running EXCEPT !["enricher"] = TRUE]
    /\ pc' = [pc EXCEPT !["enricher"] = "check"]
    /\ UNCHANGED <<cvars, ipc, os, impl, deployed, gptr, netVars, srcVars, enrVars, snkVars,
                   sig, tags, last, budget>>

\* while (running_)
FE_loop_check ==
    /\ impl = "dis" /\ pc["enricher"] = "check"
    /\ IF running["enricher"]
       THEN /\ pc' = [pc EXCEPT !["enricher"] = "recv"]
            /\ UNCHANGED <<netVars, os>>
       ELSE /\ ProcessExit("enricher", "stopped")
            /\ os' = Exited("enricher", 0, os.held["enricher"] \ Destroyed("enricher"))
    /\ UNCHANGED <<cvars, ipc, impl, deployed, running, gptr, srcVars, enrVars, snkVars,
                   sig, tags, last, budget>>

\* image = subscriber_->receive_image(); if (image.empty()) continue;
FE_receive_image ==
    /\ impl = "dis" /\ pc["enricher"] = "recv"
    /\ \E outcome \in receive("enricher") :
         \E res \in {receive_image(outcome)} :
         \E verdict \in {IF outcome = "recv_error" THEN "recv_error"
                         ELSE IF ~res.ok THEN "decode_error"
                         ELSE IF res.value.data # <<>> THEN "frame"
                         ELSE IF outcome = "timeout" THEN "timeout"
                         ELSE "empty"} :
             /\ subscriber' = Received("enricher", outcome)
             /\ budget' = Spend(outcome)
             /\ IF verdict = "frame"
                THEN /\ fe_image' = [frame |-> res.value,
                                  tag |-> Head(subscriber["enricher"].queue).tag]
                     /\ pc' = [pc EXCEPT !["enricher"] = "process"]
                     /\ UNCHANGED last
                ELSE /\ pc' = [pc EXCEPT !["enricher"] =
                                  IF verdict \in {"recv_error", "decode_error"}
                                  THEN FE_catch ELSE "check"]
                     /\ last' = [last EXCEPT !["enricher"] = Ended(@, verdict)]
                     /\ UNCHANGED fe_image
    /\ UNCHANGED <<cvars, ipc, os, impl, deployed, running, gptr, publisher, srcVars,
                   images_processed, total_features_extracted, derived,
                   snkVars, sig, tags>>

\* the counters are advanced between the transform and the publish: an
\* iteration counts when the transform has returned
CountsAsProcessed_when_published(outcome) == outcome = "published"
CountsAsProcessed(outcome) == outcome # "transform_error"

\* result = process_image(image); counters; publisher_->send(result);
FE_process_and_send ==
    /\ impl = "dis" /\ pc["enricher"] = "process"
    /\ \E outcome \in {"published"} \cup MayFail({"transform_error", "publish_error"}),
          w \in 1..MaxDim, k \in 0..MaxKeypoints :
         /\ outcome = "transform_error" => (w = 1 /\ k = 0)
         /\ outcome = "publish_error" => w = 1
         /\ IF ~CountsAsProcessed(outcome)
            THEN UNCHANGED <<images_processed, total_features_extracted>>
            ELSE /\ images_processed' = images_processed + 1
                 /\ total_features_extracted' = total_features_extracted + k
         /\ IF outcome = "published"
            THEN /\ subscriber' =
                      Publish("enricher",
                              [bytes |-> features_wire[<<fe_image.frame, w, k>>],
                               tag |-> NextTag("enricher")])
                 /\ tags' = Tagged("enricher")
            ELSE UNCHANGED <<subscriber, tags>>
         /\ derived' =
              IF outcome = "transform_error" THEN derived
              ELSE Append(derived,
                          [from |-> fe_image.tag,
                           out |-> IF outcome = "published" THEN NextTag("enricher")
                                   ELSE <<"none", 0>>])
         /\ budget' = Spend(outcome)
         /\ last' = [last EXCEPT !["enricher"] = Ended(@, outcome)]
         /\ pc' = [pc EXCEPT !["enricher"] =
                      IF outcome = "published" THEN "check" ELSE FE_catch]
    /\ fe_image' = NoImage
    /\ UNCHANGED <<cvars, ipc, os, impl, deployed, running, gptr, publisher, srcVars, snkVars, sig>>

(***************************************************************************)
(* Sink: dis::DataLogger.                                                  *)
(***************************************************************************)
\* the catch block inside the while loop of DataLogger::run
DL_catch == "check"

DL_main ==
    /\ impl = "dis"
    /\ IF main("sink", os.argv["sink"]).status = -1
       THEN /\ Launch("sink")
            /\ dl_data' = NoImage /\ cursor' = NoCursor
            /\ images_logged' = 0 /\ keypoints_logged' = 0
       ELSE /\ ReturnFromMain("sink", main("sink", os.argv["sink"]))
            /\ UNCHANGED <<dl_data, cursor, images_logged, keypoints_logged>>
    /\ UNCHANGED <<cvars, ipc, impl, deployed, netVars, srcVars, enrVars, db, txn, tags>>

\* DataLogger::DataLogger, then g_logger is assigned
DL_ctor ==
    /\ impl = "dis" /\ pc["sink"] = "ctor"
    /\ \E outcome \in {"ok"} \cup MayFail({"ctor_error"}),
          at \in DOMAIN Construction("sink") :
         /\ outcome = "ok" => at = 1
         /\ IF outcome = "ok"
            THEN /\ subscriber' = [subscriber EXCEPT !["sink"] =
                                     [open |-> TRUE, linked |-> FALSE, queue |-> <<>>]]
                 /\ pc' = [pc EXCEPT !["sink"] = "ready"]
                 /\ os' = [os EXCEPT !.held["sink"] = Constructed("sink")]
                 /\ gptr' = [gptr EXCEPT !["sink"] = TRUE]
                 /\ UNCHANGED publisher
            ELSE /\ ProcessExit("sink", "failed")
                 /\ os' = [Exited("sink", 1, AfterThrow("sink", at)) EXCEPT
                             !.threw["sink"] = Construction("sink")[at].call]
                 /\ UNCHANGED gptr
         /\ budget' = Spend(outcome)
         /\ last' = [last EXCEPT !["sink"] = Ended(@, outcome)]
    /\ UNCHANGED <<cvars, ipc, impl, deployed, running, srcVars, enrVars, snkVars, sig, tags>>

\* DataLogger::run, first statement
DL_run ==
    /\ impl = "dis" /\ pc["sink"] = "ready"
    /\ running' = [running EXCEPT !["sink"] = TRUE]
    /\ pc' = [pc EXCEPT !["sink"] = "check"]
    /\ UNCHANGED <<cvars, ipc, os, impl, deployed, gptr, netVars, srcVars, enrVars, snkVars,
                   sig, tags, last, budget>>

\* while (running_); on exit the connection is closed
DL_loop_check ==
    /\ impl = "dis" /\ pc["sink"] = "check"
    /\ IF running["sink"]
       THEN /\ pc' = [pc EXCEPT !["sink"] = "recv"]
            /\ UNCHANGED <<netVars, txn, os>>
       ELSE /\ ProcessExit("sink", "stopped")
            /\ txn' = NoTxn
            /\ os' = Exited("sink", 0, os.held["sink"] \ Destroyed("sink"))
    /\ UNCHANGED <<cvars, ipc, impl, deployed, running, gptr, srcVars, enrVars, dl_data, cursor,
                   images_logged, keypoints_logged, db, sig, tags, last, budget>>

\* data = subscriber_->receive_image_with_features();
\* if (data.image.empty()) continue;   else store_image_with_features is entered
DL_receive ==
    /\ impl = "dis" /\ pc["sink"] = "recv"
    /\ \E outcome \in receive("sink") :
         \E res \in {receive_image_with_features(outcome)} :
         \E verdict \in {IF outcome = "recv_error" THEN "recv_error"
                         ELSE IF ~res.ok THEN "decode_error"
                         ELSE IF res.value.image.data # <<>> THEN "frame"
                         ELSE IF outcome = "timeout" THEN "timeout"
                         ELSE "empty"} :
             /\ subscriber' = Received("sink", outcome)
             /\ budget' = Spend(outcome)
             /\ IF verdict = "frame"
                THEN /\ dl_data' = [frame |-> res.value,
                                 tag |-> Head(subscriber["sink"].queue).tag]
                     /\ cursor' = [image_id |-> 0, next |-> 1, before |-> View]
                     /\ pc' = [pc EXCEPT !["sink"] = "begin"]
                     /\ UNCHANGED last
                ELSE /\ pc' = [pc EXCEPT !["sink"] =
                                  IF verdict \in {"recv_error", "decode_error"}
                                  THEN DL_catch ELSE "check"]
                     /\ last' = [last EXCEPT !["sink"] = Ended(@, verdict)]
                     /\ UNCHANGED <<dl_data, cursor>>
    /\ UNCHANGED <<cvars, ipc, os, impl, deployed, running, gptr, publisher, srcVars, enrVars,
                   images_logged, keypoints_logged, db, txn, sig, tags>>

\* the rows store_image_with_features binds
ImageRow(f, tag) ==
    [id |-> 0, filename |-> f.image.filename, timestamp |-> f.image.timestamp,
     width |-> f.image.width, height |-> f.image.height,
     channels |-> f.image.channels, image_data |-> f.image.data,
     data_size |-> Len(f.image.data), tag |-> tag]
KeypointRow(image_id, kp) == [id |-> 0, image_id |-> image_id, kp |-> kp]
DescriptorRow(image_id, f) ==
    [id |-> 0, image_id |-> image_id, descriptor_data |-> Flatten(f.descriptors)]

\* where store_image_with_features goes after the image row / the keypoints
AfterImage(f) ==
    IF f.keypoints # <<>> THEN "keypoints"
    ELSE IF f.descriptors # <<>> THEN "descriptors" ELSE "commit"
AfterKeypoints(f) == IF f.descriptors # <<>> THEN "descriptors" ELSE "commit"

\* a step of the store call: the statement's effect, then to the next step,
\* or to the catch block when the statement failed
StoreStep_cancellable(outcome, effect, to, cur) ==
    /\ db' = IF ~running["sink"] THEN db
             ELSE (IF outcome = "ok" THEN effect ELSE AfterFailure(outcome))[1]
    /\ txn' = IF ~running["sink"] THEN txn
              ELSE (IF outcome = "ok" THEN effect ELSE AfterFailure(outcome))[2]
    /\ pc' = [pc EXCEPT !["sink"] = IF ~running["sink"] THEN "check"
                                    ELSE IF outcome = "ok" THEN to ELSE "rollback"]
    /\ cursor' = IF outcome = "ok" /\ running["sink"] THEN cur ELSE cursor
    /\ budget' = Spend(outcome)

StoreStep(outcome, effect, to, cur) ==
    /\ db' = (IF outcome = "ok" THEN effect ELSE AfterFailure(outcome))[1]
    /\ txn' = (IF outcome = "ok" THEN effect ELSE AfterFailure(outcome))[2]
    /\ pc' = [pc EXCEPT !["sink"] = IF outcome = "ok" THEN to ELSE "rollback"]
    /\ cursor' = IF outcome = "ok" THEN cur ELSE cursor
    /\ budget' = Spend(outcome)

\* begin_transaction(), outside the try block: BEGIN fails inside a transaction
DL_begin_transaction ==
    /\ impl = "dis" /\ pc["sink"] = "begin"
    /\ \E outcome \in (IF txn.active THEN {"nested"} ELSE {"ok"} \cup MayFail({"error"})) :
         /\ IF outcome = "ok"
            THEN /\ db' = AfterBegin[1] /\ txn' = AfterBegin[2]
                 /\ pc' = [pc EXCEPT !["sink"] = "image"]
                 /\ UNCHANGED <<last, dl_data>>
            ELSE /\ pc' = [pc EXCEPT !["sink"] = DL_catch]
                 /\ last' = [last EXCEPT !["sink"] = Ended(@, "store_error")]
                 /\ dl_data' = NoImage
                 /\ UNCHANGED <<db, txn>>
         /\ budget' = Spend(outcome)
    /\ UNCHANGED <<cvars, ipc, os, impl, deployed, running, gptr, netVars, srcVars, enrVars, cursor,
                   images_logged, keypoints_logged, sig, tags>>

\* INSERT INTO images; image_id = sqlite3_last_insert_rowid
DL_insert_image ==
    /\ impl = "dis" /\ pc["sink"] = "image"
    /\ \E outcome \in SqlOutcomes :
         StoreStep(outcome, AfterInsert("images", ImageRow(dl_data.frame, dl_data.tag)),
                   AfterImage(dl_data.frame),
                   [cursor EXCEPT !.image_id = View.seq.images + 1])
    /\ UNCHANGED <<cvars, ipc, os, impl, deployed, running, gptr, netVars, srcVars, enrVars, dl_data,
                   images_logged, keypoints_logged, sig, tags, last>>

\* INSERT INTO keypoints, one row per iteration of the for loop
DL_insert_keypoint ==
    /\ impl = "dis" /\ pc["sink"] = "keypoints"
    /\ \E outcome \in SqlOutcomes :
         StoreStep(outcome,
                   AfterInsert("keypoints",
                               KeypointRow(cursor.image_id, dl_data.frame.keypoints[cursor.next])),
                   IF cursor.next < Len(dl_data.frame.keypoints) THEN "keypoints"
                   ELSE AfterKeypoints(dl_data.frame),
                   [cursor EXCEPT !.next = @ + 1])
    /\ UNCHANGED <<cvars, ipc, os, impl, deployed, running, gptr, netVars, srcVars, enrVars, dl_data,
                   images_logged, keypoints_logged, sig, tags, last>>

\* INSERT INTO descriptors, one blob for the whole vector
DL_insert_descriptors ==
    /\ impl = "dis" /\ pc["sink"] = "descriptors"
    /\ \E outcome \in SqlOutcomes :
         StoreStep(outcome,
                   AfterInsert("descriptors", DescriptorRow(cursor.image_id, dl_data.frame)),
                   "commit", cursor)
    /\ UNCHANGED <<cvars, ipc, os, impl, deployed, running, gptr, netVars, srcVars, enrVars, dl_data,
                   images_logged, keypoints_logged, sig, tags, last>>

\* commit_transaction(); images_logged_++; keypoints_logged_ += n
DL_commit_transaction ==
    /\ impl = "dis" /\ pc["sink"] = "commit"
    /\ \E outcome \in (IF txn.active THEN SqlOutcomes ELSE {"no_transaction"}) :
         /\ IF outcome = "ok"
            THEN /\ db' = AfterCommit[1] /\ txn' = AfterCommit[2]
                 /\ pc' = [pc EXCEPT !["sink"] = "check"]
                 /\ images_logged' = images_logged + 1
                 /\ keypoints_logged' = keypoints_logged + Len(dl_data.frame.keypoints)
                 /\ last' = [last EXCEPT !["sink"] = Ended(@, "stored")]
                 /\ dl_data' = NoImage
            ELSE /\ db' = AfterFailure(outcome)[1] /\ txn' = AfterFailure(outcome)[2]
                 /\ pc' = [pc EXCEPT !["sink"] = "rollback"]
                 /\ UNCHANGED <<images_logged, keypoints_logged, last, dl_data>>
         /\ budget' = Spend(outcome)
    /\ UNCHANGED <<cvars, ipc, os, impl, deployed, running, gptr, netVars, srcVars, enrVars, cursor,
                   sig, tags>>

\* catch: rollback_transaction(); throw;   ROLLBACK fails outside a transaction,
\* and either exception ends in the catch block of run()
DL_rollback_transaction ==
    /\ impl = "dis" /\ pc["sink"] = "rollback"
    /\ db' = (IF txn.active THEN AfterRollback ELSE <<db, txn>>)[1]
    /\ txn' = (IF txn.active THEN AfterRollback ELSE <<db, txn>>)[2]
    /\ pc' = [pc EXCEPT !["sink"] = DL_catch]
    /\ last' = [last EXCEPT !["sink"] = Ended(@, "store_error")]
    /\ dl_data' = NoImage
    /\ UNCHANGED <<cvars, ipc, os, impl, deployed, running, gptr, netVars, srcVars, enrVars, cursor,
                   images_logged, keypoints_logged, sig, tags, budget>>

(***************************************************************************)
(* The voyis:: implementation: each stage is the main() of its program,    *)
(* the stop flag is the global g_running, true from program start.         *)
(***************************************************************************)
\* signalHandler: g_running = false
signalHandler(s) ==
    /\ impl = "voyis"
    /\ pc[s] \notin {"off", "stopped", "failed"}
    /\ budget.disturbances > 0
    /\ budget' = [budget EXCEPT !.disturbances = @ - 1]
    /\ running' = [running EXCEPT ![s] = FALSE]
    /\ sig' = [sig EXCEPT ![s] =
                 [flagSet |-> TRUE,
                  whileRunning |-> @.whileRunning \/ StageState(s) = "Running",
                  early |-> @.early \/ StageState(s) = "Idle"]]
    /\ UNCHANGED <<cvars, ipc, os, impl, deployed, pc, gptr, netVars, srcVars, enrVars,
                   snkVars, tags, last>>

\* std::to_string of a size_t
RECURSIVE to_string(_)
to_string(n) ==
    IF n < 10 THEN <<48 + n>> ELSE to_string(n \div 10) \o <<48 + (n % 10)>>

\* the files of the folder are .png files
getFileExtension(i) == <<112, 110, 103>>

\* the ImageMessage the Source builds from file i when image_count is c
NewImageMessage(i, c) ==
    [image_id |-> FileName(i) \o <<95>> \o to_string(c),
     image_data |-> FileData(i), format |-> getFileExtension(i),
     width |-> U32(0), height |-> U32(0), timestamp |-> Now]

\* processImage on a message whose image_data decodes to an image of one row
\* in which SIFT finds k keypoints
processImage(input_msg, k) ==
    [image_id |-> input_msg.image_id, image_data |-> input_msg.image_data,
     format |-> input_msg.format,
     width |-> U32(Len(input_msg.image_data)), height |-> U32(1),
     timestamp |-> input_msg.timestamp, processed_timestamp |-> Now,
     keypoints |-> [i \in 1..k |->
                      KeyPoint(U32(100 + i), U32(110 + i), U32(120 + i), U32(130 + i),
                               U32(140 + i), U32(i))],
     descriptors |-> [i \in 1..k |-> [j \in 1..DescriptorCols |-> U32(200 + 10 * i + j)]]]

\* what a publisher outside the pipeline sends to a stage
ForeignImageMessage(data) ==
    ImageMessage_serialize([NewImageMessage(1, 0) EXCEPT !.image_data = data])
ForeignProcessedImageMessage(data, k, q) ==
    ProcessedImageMessage_serialize(
        [processImage(NewImageMessage(1, 0), k) EXCEPT
           !.image_data = data, !.descriptors = SubSeq(@, 1, q)])
\* the ProcessedImageMessages of the store bench: up to MaxStoreKeypoints
\* keypoints and up to MaxStoreDescriptors descriptors, each descriptor
\* either empty or the vector of its index
MaxStoreKeypoints == 2
MaxStoreDescriptors == 3
StoreDescriptor(i) == [j \in 1..DescriptorCols |-> U32(200 + 10 * i + j)]
StoreInputs ==
    {[processImage(NewImageMessage(1, 0), 0) EXCEPT
        !.keypoints = [i \in 1..k |->
                         KeyPoint(U32(100 + i), U32(110 + i), U32(120 + i), U32(130 + i),
                                  U32(140 + i), U32(i))],
        !.descriptors = [i \in 1..n |-> IF i \in empty THEN <<>> ELSE StoreDescriptor(i)]] :
       k \in 0..MaxStoreKeypoints, n \in 0..MaxStoreDescriptors,
       empty \in SUBSET (1..MaxStoreDescriptors)}
StoreMessages == {ProcessedImageMessage_serialize(msg) : msg \in StoreInputs}

VoyisForeignMessages(s) ==
    IF s = "enricher"
    THEN {ForeignImageMessage(FileData(1)), ForeignImageMessage(<<>>),
          <<5, 0, 0, 0, 97>>, <<>>}
    ELSE {ForeignProcessedImageMessage(<<>>, 0, 0),
          ForeignProcessedImageMessage(FileData(1), MaxKeypoints, MaxKeypoints),
          ForeignProcessedImageMessage(FileData(1), MaxKeypoints, 0),
          <<5, 0, 0, 0, 97>>}

\* ImageMessage::serialize on the messages of the Source
FrameCounts == 0..(IF MaxFrames > NumFiles THEN MaxFrames - 1 ELSE NumFiles)
message_wire ==
    Tabulated([x \in (1..NumFiles) \X FrameCounts |->
                  ImageMessage_serialize(NewImageMessage(x[1], x[2]))])

\* ImageMessage::deserialize on what the Enricher's socket can hold
message_read ==
    Tabulated([bytes \in {message_wire[x] : x \in DOMAIN message_wire}
                            \cup VoyisForeignMessages("enricher") |->
                  ImageMessage_deserialize(bytes)])

\* ProcessedImageMessage::serialize on what processImage returns
processed_wire ==
    Tabulated([x \in {message_read[bytes].value :
                        bytes \in {b \in DOMAIN message_read :
                                      /\ message_read[b].ok
                                      /\ message_read[b].value.image_data # <<>>}}
                      \X (0..MaxKeypoints) |->
                  ProcessedImageMessage_serialize(processImage(x[1], x[2]))])

\* ProcessedImageMessage::deserialize on what the Sink's socket can hold
processed_read ==
    Tabulated([bytes \in {processed_wire[x] : x \in DOMAIN processed_wire}
                            \cup VoyisForeignMessages("sink") \cup StoreMessages |->
                  ProcessedImageMessage_deserialize(bytes)])

\* voyis::Subscriber::receive: true with the message that is queued, false
\* when the timeout elapses and false on any other error
Subscriber_receive_some_bytes(s) ==
    (IF subscriber[s].queue = <<>> \/ Head(subscriber[s].queue).bytes = <<>>
     THEN {"timeout"} ELSE {"message"})
        \cup MayFail({"recv_error"})
Subscriber_receive(s) ==
    (IF subscriber[s].queue = <<>> THEN {"timeout"} ELSE {"message"})
        \cup MayFail({"recv_error"})

(***************************************************************************)
(* Source: image_generator/main.cpp.                                       *)
(***************************************************************************)
vIG_main ==
    /\ impl = "voyis"
    /\ Launch("source")
    /\ image_index' = 0 /\ images_sent' = 0
    /\ UNCHANGED <<cvars, ipc, impl, deployed, netVars, enrVars, snkVars, tags>>

\* collectImageFiles, then the Publisher is constructed
vIG_setup ==
    /\ impl = "voyis" /\ pc["source"] = "ctor"
    /\ \E outcome \in {"ok"} \cup MayFail({"ctor_error"}),
          at \in DOMAIN Construction("source") :
         /\ outcome = "ok" => at = 1
         /\ IF outcome = "ok"
            THEN /\ publisher' = [publisher EXCEPT !["source"] = TRUE]
                 /\ pc' = [pc EXCEPT !["source"] = "ready"]
                 /\ os' = [os EXCEPT !.held["source"] = Constructed("source"),
                                      !.paths = collectImageFiles(os.folder)]
                 /\ UNCHANGED subscriber
            ELSE /\ ProcessExit("source", "failed")
                 /\ os' = [Exited("source", 1, AfterThrow("source", at)) EXCEPT
                             !.threw["source"] = Construction("source")[at].call]
         /\ budget' = Spend(outcome)
         /\ last' = [last EXCEPT !["source"] = Ended(@, outcome)]
    /\ UNCHANGED <<cvars, ipc, impl, deployed, running, gptr, srcVars, enrVars, snkVars,
                   sig, tags>>

\* while (g_running) for (i = 0; i < image_files.size() && g_running; ++i):
\* the flag never goes back to true, so every sequence of reads of it between
\* two iterations ends either in the next iteration or after the outer loop
vIG_loop ==
    /\ impl = "voyis" /\ pc["source"] \in {"ready", "check"}
    /\ IF running["source"]
       THEN /\ budget.frames > 0
            /\ pc' = [pc EXCEPT !["source"] = "body"]
            /\ UNCHANGED <<netVars, os>>
       ELSE /\ ProcessExit("source", "stopped")
            /\ os' = Exited("source", 0, os.held["source"] \ Destroyed("source"))
    /\ UNCHANGED <<cvars, ipc, impl, deployed, running, gptr, srcVars, enrVars, snkVars,
                   sig, tags, last, budget>>

\* the body of the for loop: readFile, the message, publisher.publish; ++i
vIG_publish ==
    /\ impl = "voyis" /\ pc["source"] = "body"
    /\ \E outcome \in {"sent"} \cup MayFail({"load_error", "send_error"}) :
         /\ os' = Logged(os.paths[image_index + 1], outcome,
                         NewImageMessage(os.paths[image_index + 1], images_sent).image_id)
         /\ IF outcome = "sent"
            THEN /\ subscriber' =
                      Publish("source",
                              [bytes |-> message_wire[<<os.paths[image_index + 1],
                                                        images_sent>>],
                               tag |-> NextTag("source")])
                 /\ images_sent' = images_sent + 1
                 /\ tags' = Tagged("source")
                 /\ budget' = [budget EXCEPT !.frames = @ - 1]
            ELSE /\ budget' = Spend(outcome)
                 /\ UNCHANGED <<subscriber, images_sent, tags>>
         /\ last' = [last EXCEPT !["source"] = Ended(@, outcome)]
    /\ image_index' = (image_index + 1) % NumFiles
    /\ pc' = [pc EXCEPT !["source"] = "check"]
    /\ UNCHANGED <<cvars, ipc, impl, deployed, running, gptr, publisher, enrVars, snkVars, sig>>

(***************************************************************************)
(* Enricher: feature_extractor/main.cpp.                                   *)
(***************************************************************************)
vFE_main ==
    /\ impl = "voyis"
    /\ Launch("enricher")
    /\ fe_image' = NoImage
    /\ images_processed' = 0 /\ total_features_extracted' = 0
    /\ UNCHANGED <<cvars, ipc, impl, deployed, netVars, srcVars, derived, snkVars, tags>>

\* the Subscriber and the Publisher are constructed
vFE_setup ==
    /\ impl = "voyis" /\ pc["enricher"] = "ctor"
    /\ \E outcome \in {"ok"} \cup MayFail({"ctor_error"}),
          at \in DOMAIN Construction("enricher") :
         /\ outcome = "ok" => at = 1
         /\ IF outcome = "ok"
            THEN /\ subscriber' = [subscriber EXCEPT !["enricher"] =
                                     [open |-> TRUE, linked |-> FALSE, queue |-> <<>>]]
                 /\ publisher' = [publisher EXCEPT !["enricher"] = TRUE]
                 /\ pc' = [pc EXCEPT !["enricher"] = "ready"]
                 /\ os' = [os EXCEPT !.held["enricher"] = Constructed("enricher")]
            ELSE /\ ProcessExit("enricher", "failed")
                 /\ os' = [Exited("enricher", 1, AfterThrow("enricher", at)) EXCEPT
                             !.threw["enricher"] = Construction("enricher")[at].call]
         /\ budget' = Spend(outcome)
         /\ last' = [last EXCEPT !["enricher"] = Ended(@, outcome)]
    /\ UNCHANGED <<cvars, ipc, impl, deployed, running, gptr, srcVars, enrVars, snkVars,
                   sig, tags>>

\* while (g_running)
vFE_loop ==
    /\ impl = "voyis" /\ pc["enricher"] \in {"ready", "check"}
    /\ IF running["enricher"]
       THEN /\ pc' = [pc EXCEPT !["enricher"] = "recv"]
            /\ UNCHANGED <<netVars, os>>
       ELSE /\ ProcessExit("enricher", "stopped")
            /\ os' = Exited("enricher", 0, os.held["enricher"] \ Destroyed("enricher"))
    /\ UNCHANGED <<cvars, ipc, impl, deployed, running, gptr, srcVars, enrVars, snkVars,
                   sig, tags, last, budget>>

\* if (!subscriber.receive(raw_data)) { sleep; continue; }
\* try { img_msg = ImageMessage::deserialize(raw_data);
vFE_receive ==
    /\ impl = "voyis" /\ pc["enricher"] = "recv"
    /\ \E outcome \in Subscriber_receive("enricher") :
         \E res \in {IF outcome = "message"
                     THEN message_read[Head(subscriber["enricher"].queue).bytes]
                     ELSE Thrown("no message")} :
         \E verdict \in {IF outcome # "message" THEN outcome
                         ELSE IF ~res.ok THEN "decode_error" ELSE "frame"} :
             /\ subscriber' = Received("enricher", outcome)
             /\ budget' = Spend(outcome)
             /\ IF verdict = "frame"
                THEN /\ fe_image' = [frame |-> res.value,
                                     tag |-> Head(subscriber["enricher"].queue).tag]
                     /\ pc' = [pc EXCEPT !["enricher"] = "process"]
                     /\ UNCHANGED last
                ELSE /\ pc' = [pc EXCEPT !["enricher"] = "check"]
                     /\ last' = [last EXCEPT !["enricher"] = Ended(@, verdict)]
                     /\ UNCHANGED fe_image
    /\ UNCHANGED <<cvars, ipc, os, impl, deployed, running, gptr, publisher, srcVars,
                   images_processed, total_features_extracted, derived,
                   snkVars, sig, tags>>

\* processed_msg = processImage(img_msg); the counters;
\* publisher.publish(processed_msg.serialize()); } catch (...) { }
\* cv::imdecode gives no image for an empty buffer
vFE_process ==
    /\ impl = "voyis" /\ pc["enricher"] = "process"
    /\ \E outcome \in (IF fe_image.frame.image_data = <<>> THEN {"transform_error"}
                       ELSE {"published"} \cup MayFail({"transform_error", "publish_error"})),
          k \in 0..MaxKeypoints :
         /\ outcome = "transform_error" => k = 0
         /\ IF ~CountsAsProcessed(outcome)
            THEN UNCHANGED <<images_processed, total_features_extracted>>
            ELSE /\ images_processed' = images_processed + 1
                 /\ total_features_extracted' = total_features_extracted + k
         /\ IF outcome = "published"
            THEN /\ subscriber' =
                      Publish("enricher",
                              [bytes |-> processed_wire[<<fe_image.frame, k>>],
                               tag |-> NextTag("enricher")])
                 /\ tags' = Tagged("enricher")
            ELSE UNCHANGED <<subscriber, tags>>
         /\ derived' =
              IF outcome = "transform_error" THEN derived
              ELSE Append(derived,
                          [from |-> fe_image.tag,
                           out |-> IF outcome = "published" THEN NextTag("enricher")
                                   ELSE <<"none", 0>>])
         /\ budget' = IF fe_image.frame.image_data = <<>> THEN budget ELSE Spend(outcome)
         /\ last' = [last EXCEPT !["enricher"] = Ended(@, outcome)]
    /\ fe_image' = NoImage
    /\ pc' = [pc EXCEPT !["enricher"] = "check"]
    /\ UNCHANGED <<cvars, ipc, os, impl, deployed, running, gptr, publisher, srcVars, snkVars, sig>>

(***************************************************************************)
(* Sink: data_logger/main.cpp and its class Database.                      *)
(***************************************************************************)
vDL_main ==
    /\ impl = "voyis"
    /\ Launch("sink")
    /\ dl_data' = NoImage /\ cursor' = NoCursor
    /\ images_logged' = 0 /\ keypoints_logged' = 0
    /\ UNCHANGED <<cvars, ipc, impl, deployed, netVars, srcVars, enrVars, db, txn, tags>>

\* Database::Database (open, CREATE TABLE IF NOT EXISTS), then the Subscriber
vDL_setup ==
    /\ impl = "voyis" /\ pc["sink"] = "ctor"
    /\ \E outcome \in {"ok"} \cup MayFail({"ctor_error"}),
          at \in DOMAIN Construction("sink") :
         /\ outcome = "ok" => at = 1
         /\ IF outcome = "ok"
            THEN /\ subscriber' = [subscriber EXCEPT !["sink"] =
                                     [open |-> TRUE, linked |-> FALSE, queue |-> <<>>]]
                 /\ pc' = [pc EXCEPT !["sink"] = "ready"]
                 /\ os' = [os EXCEPT !.held["sink"] = Constructed("sink")]
                 /\ UNCHANGED publisher
            ELSE /\ ProcessExit("sink", "failed")
                 /\ os' = [Exited("sink", 1, AfterThrow("sink", at)) EXCEPT
                             !.threw["sink"] = Construction("sink")[at].call]
         /\ budget' = Spend(outcome)
         /\ last' = [last EXCEPT !["sink"] = Ended(@, outcome)]
    /\ UNCHANGED <<cvars, ipc, impl, deployed, running, gptr, srcVars, enrVars, snkVars,
                   sig, tags>>

\* while (g_running); after the loop printStatistics reads the images table
\* and ~Database closes the connection
vDL_loop ==
    /\ impl = "voyis" /\ pc["sink"] \in {"ready", "check"}
    /\ IF running["sink"]
       THEN /\ pc' = [pc EXCEPT !["sink"] = "recv"]
            /\ UNCHANGED <<netVars, txn, os>>
       ELSE /\ ProcessExit("sink", "stopped")
            /\ txn' = NoTxn
            /\ os' = Exited("sink", 0, os.held["sink"] \ Destroyed("sink"))
    /\ UNCHANGED <<cvars, ipc, impl, deployed, running, gptr, srcVars, enrVars, dl_data, cursor,
                   images_logged, keypoints_logged, db, sig, tags, last, budget>>

\* if (!subscriber.receive(raw_data)) { sleep; continue; }
\* try { msg = ProcessedImageMessage::deserialize(raw_data);
\* then storeProcessedImage is entered
vDL_receive ==
    /\ impl = "voyis" /\ pc["sink"] = "recv"
    /\ \E outcome \in Subscriber_receive("sink") :
         \E res \in {IF outcome = "message"
                     THEN processed_read[Head(subscriber["sink"].queue).bytes]
                     ELSE Thrown("no message")} :
         \E verdict \in {IF outcome # "message" THEN outcome
                         ELSE IF ~res.ok THEN "decode_error" ELSE "frame"} :
             /\ subscriber' = Received("sink", outcome)
             /\ budget' = Spend(outcome)
             /\ IF verdict = "frame"
                THEN /\ dl_data' = [frame |-> res.value,
                                    tag |-> Head(subscriber["sink"].queue).tag]
                     /\ cursor' = [image_id |-> 0, next |-> 1, before |-> View]
                     /\ pc' = [pc EXCEPT !["sink"] = "begin"]
                     /\ UNCHANGED last
                ELSE /\ pc' = [pc EXCEPT !["sink"] = "check"]
                     /\ last' = [last EXCEPT !["sink"] = Ended(@, verdict)]
                     /\ UNCHANGED <<dl_data, cursor>>
    /\ UNCHANGED <<cvars, ipc, os, impl, deployed, running, gptr, publisher, srcVars, enrVars,
                   images_logged, keypoints_logged, db, txn, sig, tags>>

\* a keypoint row that takes every descriptor there is, empty or not
ProcessedKeypointRow_with_empty_blob(image_id, msg, i) ==
    [id |-> 0, image_id |-> image_id, kp |-> msg.keypoints[i],
     descriptor |-> IF i <= Len(msg.descriptors)
                    THEN Flatten(msg.descriptors[i]) ELSE <<"NULL">>]

\* the rows insertImage and insertKeypoint bind; an empty descriptor is NULL
ProcessedImageRow(msg, tag) ==
    [id |-> 0, image_id |-> msg.image_id, format |-> msg.format,
     width |-> msg.width, height |-> msg.height, timestamp |-> msg.timestamp,
     processed_timestamp |-> msg.processed_timestamp,
     num_keypoints |-> Len(msg.keypoints), image_data |-> msg.image_data,
     created_at |-> Now, tag |-> tag]
ProcessedKeypointRow(image_id, msg, i) ==
    [id |-> 0, image_id |-> image_id, kp |-> msg.keypoints[i],
     descriptor |-> IF i <= Len(msg.descriptors) /\ msg.descriptors[i] # <<>>
                    THEN Flatten(msg.descriptors[i]) ELSE <<"NULL">>]

\* executeSQL("BEGIN TRANSACTION"), before the try block of storeProcessedImage:
\* its exception is caught in the main loop
vDL_begin ==
    /\ impl = "voyis" /\ pc["sink"] = "begin"
    /\ \E outcome \in (IF txn.active THEN {"nested"} ELSE {"ok"} \cup MayFail({"error"})) :
         /\ IF outcome = "ok"
            THEN /\ db' = AfterBegin[1] /\ txn' = AfterBegin[2]
                 /\ pc' = [pc EXCEPT !["sink"] = "image"]
                 /\ UNCHANGED <<last, dl_data>>
            ELSE /\ pc' = [pc EXCEPT !["sink"] = "check"]
                 /\ last' = [last EXCEPT !["sink"] = Ended(@, "store_error")]
                 /\ dl_data' = NoImage
                 /\ UNCHANGED <<db, txn>>
         /\ budget' = Spend(outcome)
    /\ UNCHANGED <<cvars, ipc, os, impl, deployed, running, gptr, netVars, srcVars, enrVars, cursor,
                   images_logged, keypoints_logged, sig, tags>>

\* insertImage; image_data.data() of an empty vector may be the null pointer,
\* which binds NULL to a NOT NULL column
vDL_insertImage ==
    /\ impl = "voyis" /\ pc["sink"] = "image"
    /\ \E outcome \in SqlOutcomes \cup
                        (IF dl_data.frame.image_data = <<>> THEN {"constraint"} ELSE {}) :
         StoreStep(outcome,
                   AfterInsert("images", ProcessedImageRow(dl_data.frame, dl_data.tag)),
                   IF dl_data.frame.keypoints # <<>> THEN "keypoints" ELSE "commit",
                   [cursor EXCEPT !.image_id = View.seq.images + 1])
    /\ UNCHANGED <<cvars, ipc, os, impl, deployed, running, gptr, netVars, srcVars, enrVars, dl_data,
                   images_logged, keypoints_logged, sig, tags, last>>

\* insertKeypoint, one row per iteration of the for loop
vDL_insertKeypoint ==
    /\ impl = "voyis" /\ pc["sink"] = "keypoints"
    /\ \E outcome \in SqlOutcomes :
         StoreStep(outcome,
                   AfterInsert("keypoints",
                               ProcessedKeypointRow(cursor.image_id, dl_data.frame, cursor.next)),
                   IF cursor.next < Len(dl_data.frame.keypoints) THEN "keypoints"
                   ELSE "commit",
                   [cursor EXCEPT !.next = @ + 1])
    /\ UNCHANGED <<cvars, ipc, os, impl, deployed, running, gptr, netVars, srcVars, enrVars, dl_data,
                   images_logged, keypoints_logged, sig, tags, last>>

\* executeSQL("COMMIT"); return true;  then ++stored_count, total_keypoints
vDL_commit ==
    /\ impl = "voyis" /\ pc["sink"] = "commit"
    /\ \E outcome \in (IF txn.active THEN SqlOutcomes ELSE {"no_transaction"}) :
         /\ IF outcome = "ok"
            THEN /\ db' = AfterCommit[1] /\ txn' = AfterCommit[2]
                 /\ pc' = [pc EXCEPT !["sink"] = "check"]
                 /\ images_logged' = images_logged + 1
                 /\ keypoints_logged' = keypoints_logged + Len(dl_data.frame.keypoints)
                 /\ last' = [last EXCEPT !["sink"] = Ended(@, "stored")]
                 /\ dl_data' = NoImage
            ELSE /\ db' = AfterFailure(outcome)[1] /\ txn' = AfterFailure(outcome)[2]
                 /\ pc' = [pc EXCEPT !["sink"] = "rollback"]
                 /\ UNCHANGED <<images_logged, keypoints_logged, last, dl_data>>
         /\ budget' = Spend(outcome)
    /\ UNCHANGED <<cvars, ipc, os, impl, deployed, running, gptr, netVars, srcVars, enrVars, cursor,
                   sig, tags>>

\* catch: executeSQL("ROLLBACK"); return false;   outside a transaction
\* ROLLBACK fails and its exception is caught in the main loop
vDL_rollback ==
    /\ impl = "voyis" /\ pc["sink"] = "rollback"
    /\ db' = (IF txn.active THEN AfterRollback ELSE <<db, txn>>)[1]
    /\ txn' = (IF txn.active THEN AfterRollback ELSE <<db, txn>>)[2]
    /\ pc' = [pc EXCEPT !["sink"] = "check"]
    /\ last' = [last EXCEPT !["sink"] = Ended(@, "store_error")]
    /\ dl_data' = NoImage
    /\ UNCHANGED <<cvars, ipc, os, impl, deployed, running, gptr, netVars, srcVars, enrVars, cursor,
                   images_logged, keypoints_logged, sig, tags, budget>>

(***************************************************************************)
(* A publisher that is not one of the stages (a test program, a stray      *)
(* process) bound at the endpoint a stage subscribes to.                   *)
(***************************************************************************)
ForeignPublish(s) ==
    /\ s \in Subscribers
    /\ subscriber[s].open
    /\ Upstream(s) \notin deployed
    /\ budget.foreign > 0
    /\ Len(subscriber[s].queue) < MaxQueue
    /\ \E bytes \in (IF impl = "dis" THEN ForeignMessages(s)
                     ELSE VoyisForeignMessages(s)) :
         subscriber' = [subscriber EXCEPT ![s].queue =
                          Append(@, [bytes |-> bytes, tag |-> NextTag("foreign")])]
    /\ tags' = Tagged("foreign")
    /\ budget' = [budget EXCEPT !.foreign = @ - 1]
    /\ UNCHANGED <<cvars, ipc, os, impl, deployed, procVars, publisher, srcVars, enrVars, snkVars,
                   sig, last>>

(***************************************************************************)
(* The pipeline as a whole.                                                *)
(***************************************************************************)
CodecIdle ==
    /\ cx = <<>> /\ cbuf = <<>>
    /\ cres = [ok |-> FALSE, error |-> "not called"]
    /\ cop = [step |-> "off", kind |-> "none", damage |-> "none", decoder |-> "none"]

\* the test bench before any endpoint exists
NoReceive == [kind |-> "none", tag |-> <<"none", 0>>, bytes |-> <<>>]
NoSend == [result |-> "none", peers |-> 0, data |-> <<>>, bind |-> 0]
IpcIdle ==
    [waiting |-> [u \in Subscribers |-> FALSE],
     result |-> [u \in Subscribers |-> NoReceive],
     since |-> [u \in Subscribers |-> -1],
     early |-> [u \in Subscribers |-> FALSE],
     made |-> [u \in Subscribers |-> 0],
     bound |-> [p \in Publishers |-> 0],
     left |-> [p \in Publishers |-> FALSE],
     sent |-> [p \in Publishers |-> NoSend]]

PipelineIdle ==
    /\ pc = [s \in Stages |-> "off"]
    /\ running = [s \in Stages |-> FALSE]
    /\ gptr = [s \in Stages |-> FALSE]
    /\ publisher = [s \in Publishers |-> FALSE]
    /\ subscriber = [s \in Subscribers |-> NoSocket]
    /\ image_index = 0 /\ images_sent = 0
    /\ fe_image = NoImage /\ images_processed = 0 /\ total_features_extracted = 0
    /\ derived = <<>>
    /\ dl_data = NoImage /\ cursor = NoCursor
    /\ images_logged = 0 /\ keypoints_logged = 0
    /\ db = EmptyDb /\ txn = NoTxn
    /\ sig = [s \in Stages |-> NoSignal]
    /\ tags = [o \in Origins |-> 0]
    /\ last = [s \in Stages |-> NoOutcome]

Init ==
    /\ CodecIdle
    /\ PipelineIdle
    /\ ipc = IpcIdle
    /\ os = OsIdle
    /\ impl \in {"dis", "voyis"}
    /\ deployed \in {{"source"}, {"enricher"}, {"sink"}, Stages}
    /\ budget = [disturbances |-> MaxDisturbances, foreign |-> MaxForeign,
                 frames |-> MaxFrames]

SourceStep ==
    \/ IG_ctor \/ IG_run \/ IG_loop_check \/ IG_publish_image
    \/ vIG_setup \/ vIG_loop \/ vIG_publish
EnricherStep ==
    \/ FE_ctor \/ FE_run \/ FE_loop_check \/ FE_receive_image \/ FE_process_and_send
    \/ vFE_setup \/ vFE_loop \/ vFE_receive \/ vFE_process
SinkStep ==
    \/ DL_ctor \/ DL_run \/ DL_loop_check \/ DL_receive
    \/ DL_begin_transaction \/ DL_insert_image \/ DL_insert_keypoint
    \/ DL_insert_descriptors \/ DL_commit_transaction \/ DL_rollback_transaction
    \/ vDL_setup \/ vDL_loop \/ vDL_receive
    \/ vDL_begin \/ vDL_insertImage \/ vDL_insertKeypoint \/ vDL_commit \/ vDL_rollback

Next ==
    \/ IG_main \/ FE_main \/ DL_main
    \/ vIG_main \/ vFE_main \/ vDL_main
    \/ SourceStep \/ EnricherStep \/ SinkStep
    \/ \E s \in Stages : signal_handler(s)
    \/ \E s \in Stages : signalHandler(s)
    \/ \E s \in Subscribers : Link(s)
    \/ \E s \in Subscribers : ForeignPublish(s)

Spec == Init /\ [][Next]_vars

\* every stage process is scheduled: each has a thread of its own
FairSpec ==
    Spec /\ WF_vars(SourceStep) /\ WF_vars(EnricherStep) /\ WF_vars(SinkStep)

(***************************************************************************)
(* The Source on its own: a folder whose listing comes in any order, the   *)
(* output of the process captured, and the process followed for one image  *)
(* more than the folder holds.                                             *)
(***************************************************************************)
SourceFrames == 3       \* Frames the Source publishes: one more than the folder holds
SourceDisturbances == 2
Listings ==
    {f \in [1..NumFiles -> 1..NumFiles] :
        \A i \in 1..NumFiles : \E j \in 1..NumFiles : f[j] = i}

SourceInit ==
    /\ CodecIdle
    /\ PipelineIdle
    /\ ipc = IpcIdle
    /\ \E f \in Listings : os = [OsIdle EXCEPT !.folder = f, !.capture = TRUE]
    /\ impl \in {"dis", "voyis"}
    /\ deployed = {"source"}
    /\ budget = [disturbances |-> SourceDisturbances, foreign |-> 0,
                 frames |-> SourceFrames]

SourceNext ==
    \/ IG_main \/ vIG_main
    \/ SourceStep
    \/ signal_handler("source")
    \/ signalHandler("source")

SpecSource == SourceInit /\ [][SourceNext]_vars

\* the Source's process is scheduled
FairSpecSource == SpecSource /\ WF_vars(SourceStep)

(***************************************************************************)
(* The store bench: the voyis Sink on its own, fed by a publisher that     *)
(* sends ProcessedImageMessages whose keypoints and descriptors differ in  *)
(* number.                                                                 *)
(***************************************************************************)
StoreSent == 2          \* messages the bench sends
StoreDisturbances == 1

StorePublish ==
    /\ impl = "voyis"
    /\ subscriber["sink"].open
    /\ budget.foreign > 0
    /\ Len(subscriber["sink"].queue) < MaxQueue
    /\ \E bytes \in StoreMessages :
         subscriber' = [subscriber EXCEPT !["sink"].queue =
                          Append(@, [bytes |-> bytes, tag |-> NextTag("foreign")])]
    /\ tags' = Tagged("foreign")
    /\ budget' = [budget EXCEPT !.foreign = @ - 1]
    /\ UNCHANGED <<cvars, ipc, os, impl, deployed, procVars, publisher, srcVars, enrVars, snkVars,
                   sig, last>>

StoreInit ==
    /\ CodecIdle
    /\ PipelineIdle
    /\ ipc = IpcIdle
    /\ os = OsIdle
    /\ impl = "voyis"
    /\ deployed = {"sink"}
    /\ budget = [disturbances |-> StoreDisturbances, foreign |-> StoreSent, frames |-> 0]

StoreNext ==
    \/ vDL_main \/ vDL_setup \/ vDL_loop \/ vDL_receive
    \/ vDL_begin \/ vDL_insertImage \/ vDL_insertKeypoint \/ vDL_commit \/ vDL_rollback
    \/ StorePublish
    \/ signalHandler("sink")

SpecStore == StoreInit /\ [][StoreNext]_vars

(***************************************************************************)
(* The command lines: one executable of the dis:: implementation is        *)
(* started with up to MaxArgs arguments and followed until its stage has   *)
(* been made or main has returned.                                         *)
(***************************************************************************)
Words(s) ==
    {"--help", "-h", "--verbose", "images", "100", "0", "-1"} \cup DOMAIN Options(s)
CommandLines(s) == UNION {[1..n -> Words(s)] : n \in 0..MaxArgs}

MainInit ==
    /\ CodecIdle
    /\ PipelineIdle
    /\ ipc = IpcIdle
    /\ impl = "dis"
    /\ \E s \in Stages :
         /\ deployed = {s}
         /\ \E argv \in CommandLines(s) : os = [OsIdle EXCEPT !.argv[s] = argv]
    /\ budget = [disturbances |-> 1, foreign |-> 0, frames |-> 0]

MainNext ==
    \/ IG_main \/ FE_main \/ DL_main
    \/ IG_ctor \/ FE_ctor \/ DL_ctor

SpecMain == MainInit /\ [][MainNext]_vars

NoResult == [ok |-> FALSE, error |-> "not called"]

CodecInit ==
    /\ \E kind \in {"Frame", "EnrichedFrame"} :
         /\ cx \in (IF kind = "Frame" THEN FrameInputs ELSE EnrichedInputs)
         /\ cop = [step |-> "input", kind |-> kind, damage |-> "none", decoder |-> "none"]
    /\ cbuf = <<>>
    /\ cres = NoResult
    /\ PipelineIdle
    /\ ipc = IpcIdle
    /\ os = OsIdle
    /\ impl = "dis"
    /\ deployed = {}
    /\ budget = [disturbances |-> 0, foreign |-> 0, frames |-> 0]

SerializeImage ==
    /\ cop.step = "input" /\ cop.kind = "Frame"
    /\ cbuf' = serialize_image(cx)
    /\ cop' = [cop EXCEPT !.step = "encoded"]
    /\ UNCHANGED <<cx, cres, pvars, ipc, os>>

SerializeImageWithFeatures ==
    /\ cop.step = "input" /\ cop.kind = "EnrichedFrame"
    /\ cbuf' = serialize_image_with_features(cx)
    /\ cop' = [cop EXCEPT !.step = "encoded"]
    /\ UNCHANGED <<cx, cres, pvars, ipc, os>>

\* buf with the bytes at 0-based offset off replaced by bytes
Poke(buf, off, bytes) ==
    [i \in 1..Len(buf) |->
        IF i > off /\ i <= off + Len(bytes) THEN bytes[i - off] ELSE buf[i]]

Damage(what, buf) ==
    /\ cop.step = "encoded"
    /\ buf # cbuf
    /\ cbuf' = buf
    /\ cop' = [cop EXCEPT !.step = "damaged", !.damage = what]
    /\ UNCHANGED <<cx, cres, pvars, ipc, os>>

DamageMagic ==
    /\ cop.step = "encoded"
    /\ \E m \in {U32(0), <<239, 190, 173, 223>>, <<120, 86, 52, 18>>} :
        Damage("magic", Poke(cbuf, 0, m))

DamageType ==
    /\ cop.step = "encoded"
    /\ \E t \in {U32(0), IMAGE, IMAGE_WITH_FEATURES, U32(3)} :
        Damage("type", Poke(cbuf, 4, t))

DamagePayloadSize ==
    /\ cop.step = "encoded"
    /\ LET cur == ReadHeader(cbuf).payload_size
       IN  \E p \in {U64(0), AddLE(cur, U64(1)), SubLE(cur, U64(1)), [i \in 1..8 |-> 255]} :
            Damage("payload_size", Poke(cbuf, 8, p))

DamageFilenameLength ==
    /\ cop.step = "encoded"
    /\ LET cur == ReadHeader(cbuf).filename_length
       IN  \E n \in {AddLE(cur, U32(1)), SubLE(cur, U32(1)), <<255, 255, 255, 255>>} :
            Damage("filename_length", Poke(cbuf, 36, n))

\* the keypoint count and the descriptor count of an encoded EnrichedFrame
KeypointCountAt(x) == HeaderSize + Len(x.image.filename) + Len(x.image.data)
DescriptorCountAt(x) == KeypointCountAt(x) + 4 + KeypointSize * Len(x.keypoints)

DamageKeypointCount ==
    /\ cop.step = "encoded" /\ cop.kind = "EnrichedFrame"
    /\ \E n \in {U32(Len(cx.keypoints) + 1), <<255, 255, 255, 255>>} :
         Damage("keypoint_count", Poke(cbuf, KeypointCountAt(cx), n))

DamageDescriptorCount ==
    /\ cop.step = "encoded" /\ cop.kind = "EnrichedFrame"
    /\ \E n \in {U32(Len(cx.descriptors) + 1), <<255, 255, 255, 255>>} :
         Damage("descriptor_count", Poke(cbuf, DescriptorCountAt(cx), n))

Truncate ==
    /\ cop.step = "encoded"
    /\ \E n \in {0, 10, HeaderSize - 1, HeaderSize, Len(cbuf) - 1} :
         /\ n < Len(cbuf)
         /\ Damage("truncated", SubSeq(cbuf, 1, n))

Extend ==
    /\ cop.step = "encoded"
    /\ Damage("extended", cbuf \o <<0>>)

DeserializeImage ==
    /\ cop.step \in {"encoded", "damaged"}
    /\ cres' = deserialize_image(cbuf)
    /\ cop' = [cop EXCEPT !.step = "decoded", !.decoder = "image"]
    /\ UNCHANGED <<cx, cbuf, pvars, ipc, os>>

DeserializeImageWithFeatures ==
    /\ cop.step \in {"encoded", "damaged"}
    /\ cres' = deserialize_image_with_features(cbuf)
    /\ cop' = [cop EXCEPT !.step = "decoded", !.decoder = "features"]
    /\ UNCHANGED <<cx, cbuf, pvars, ipc, os>>

CodecNext ==
    \/ SerializeImage
    \/ SerializeImageWithFeatures
    \/ DamageMagic
    \/ DamageType
    \/ DamagePayloadSize
    \/ DamageFilenameLength
    \/ DamageKeypointCount
    \/ DamageDescriptorCount
    \/ Truncate
    \/ Extend
    \/ DeserializeImage
    \/ DeserializeImageWithFeatures

SpecCodec == CodecInit /\ [][CodecNext]_vars

(***************************************************************************)
(* Message harness (tests/test_message.cpp): a message of the voyis::      *)
(* implementation is drawn, serialized and handed to the deserialize       *)
(* function of its type.                                                   *)
(***************************************************************************)
\* a descriptor vector of n floats
SampleVector(n) == [j \in 1..n |-> U32(200 + j)]

\* every sequence of at most MaxVectors vectors of at most MaxVectorLen floats
DescriptorVectors ==
    UNION {[1..n -> {SampleVector(m) : m \in 0..MaxVectorLen}] : n \in 0..MaxVectors}

ImageMessageInputs ==
    {[image_id |-> IdBytes(n), image_data |-> PayloadBytes(m), format |-> f,
      width |-> d, height |-> d, timestamp |-> t] :
        n \in 0..MaxIdLen, m \in 0..MaxPayloadLen, f \in {<<>>, getFileExtension(1)},
        d \in {U32(0), U32(640)}, t \in {U64(0), Now}}

ProcessedImageMessageInputs ==
    {[image_id |-> IdBytes(n), image_data |-> PayloadBytes(m),
      format |-> getFileExtension(1), width |-> U32(640), height |-> U32(480),
      timestamp |-> Now, processed_timestamp |-> t,
      keypoints |-> [i \in 1..k |->
                       KeyPoint(U32(100 + i), U32(110 + i), U32(120 + i), U32(130 + i),
                                U32(140 + i), U32(i))],
      descriptors |-> d] :
        n \in 0..MaxIdLen, m \in {0, MaxPayloadLen}, t \in {U64(0), Now},
        k \in 0..MaxVectors, d \in DescriptorVectors}

MessageInit ==
    /\ \E kind \in {"ImageMessage", "ProcessedImageMessage"} :
         /\ cx \in (IF kind = "ImageMessage" THEN ImageMessageInputs
                    ELSE ProcessedImageMessageInputs)
         /\ cop = [step |-> "input", kind |-> kind, damage |-> "none", decoder |-> "none"]
    /\ cbuf = <<>>
    /\ cres = [ok |-> FALSE, error |-> "not called"]
    /\ PipelineIdle
    /\ ipc = IpcIdle
    /\ os = OsIdle
    /\ impl = "voyis"
    /\ deployed = {}
    /\ budget = [disturbances |-> 0, foreign |-> 0, frames |-> 0]

ImageMessageSerialize ==
    /\ cop.step = "input" /\ cop.kind = "ImageMessage"
    /\ cbuf' = ImageMessage_serialize(cx)
    /\ cop' = [cop EXCEPT !.step = "encoded"]
    /\ UNCHANGED <<cx, cres, pvars, ipc, os>>

ProcessedImageMessageSerialize ==
    /\ cop.step = "input" /\ cop.kind = "ProcessedImageMessage"
    /\ cbuf' = ProcessedImageMessage_serialize(cx)
    /\ cop' = [cop EXCEPT !.step = "encoded"]
    /\ UNCHANGED <<cx, cres, pvars, ipc, os>>

\* every strict prefix of the serialized message
MessageTruncate ==
    /\ cop.step = "encoded"
    /\ \E n \in 0..(Len(cbuf) - 1) : Damage("truncated", SubSeq(cbuf, 1, n))

\* 0-based offsets of the length prefixes of image_id, image_data and format,
\* and of num_keypoints and num_descriptors
LengthOffsets(x) ==
    {0, 4 + Len(x.image_id), 8 + Len(x.image_id) + Len(x.image_data)}
NumKeypointsAt(x) == 36 + Len(x.image_id) + Len(x.image_data) + Len(x.format)
NumDescriptorsAt(x) == NumKeypointsAt(x) + 4 + 24 * Len(x.keypoints)

\* a length prefix that stands for more bytes than the member has
MessageDamageLength ==
    /\ cop.step = "encoded"
    /\ \E off \in LengthOffsets(cx) :
         \E n \in {AddLE(SubSeq(cbuf, off + 1, off + 4), U32(1)), <<255, 255, 255, 0>>} :
            Damage("length", Poke(cbuf, off, n))

\* an element count that stands for more elements than follow
MessageDamageCount ==
    /\ cop.step = "encoded" /\ cop.kind = "ProcessedImageMessage"
    /\ \E off \in {NumKeypointsAt(cx), NumDescriptorsAt(cx)} :
         \E n \in {AddLE(SubSeq(cbuf, off + 1, off + 4), U32(1)), <<255, 255, 255, 255>>} :
            Damage("count", Poke(cbuf, off, n))

ImageMessageDeserialize ==
    /\ cop.step \in {"encoded", "damaged"}
    /\ cres' = ImageMessage_deserialize(cbuf)
    /\ cop' = [cop EXCEPT !.step = "decoded", !.decoder = "ImageMessage"]
    /\ UNCHANGED <<cx, cbuf, pvars, ipc, os>>

ProcessedImageMessageDeserialize ==
    /\ cop.step \in {"encoded", "damaged"}
    /\ cres' = ProcessedImageMessage_deserialize(cbuf)
    /\ cop' = [cop EXCEPT !.step = "decoded", !.decoder = "ProcessedImageMessage"]
    /\ UNCHANGED <<cx, cbuf, pvars, ipc, os>>

MessageNext ==
    \/ ImageMessageSerialize
    \/ ProcessedImageMessageSerialize
    \/ MessageTruncate
    \/ MessageDamageLength
    \/ MessageDamageCount
    \/ ImageMessageDeserialize
    \/ ProcessedImageMessageDeserialize

SpecMessage == MessageInit /\ [][MessageNext]_vars


(***************************************************************************)
(* The transport test bench (tests/test_ipc.cpp, unnamed/part_002): one    *)
(* Publisher and one Subscriber object per endpoint, created, used and     *)
(* destroyed in any order.  ipc records, per subscriber, whether a receive *)
(* call is in progress, what the last call returned, how many messages its *)
(* publisher had sent when its connection was established (-1 before),     *)
(* whether it was constructed before a publisher was bound and how often   *)
(* it was constructed; per publisher, how often one was bound, whether a   *)
(* connected subscriber has gone away, and what the last publish returned. *)
(***************************************************************************)
MaxBinds == 2          \* Publisher objects bound at one endpoint, one after the other
MaxSubscribers == 2    \* Subscriber objects connected to one endpoint, one after the other
TestData == {<<>>, <<1, 2, 3>>}

\* dis::Publisher::Impl::send: throws for empty data and when zmq_send fails
Publisher_send(p, data) ==
    IF data = <<>> THEN {"rejected"} ELSE {"ok"} \cup MayFail({"send_error"})

\* a publish that needs somebody to take the message
Publisher_publish_to_peers(p, data) ==
    IF ~subscriber[Downstream(p)].linked THEN {"would_block"}
    ELSE {"ok"} \cup MayFail({"send_error"})
\* voyis::Publisher::publish: false when zmq_send fails, true otherwise
Publisher_publish(p, data) ==
    {"ok"} \cup MayFail({"send_error"})

IpcInit ==
    /\ CodecIdle
    /\ PipelineIdle
    /\ ipc = IpcIdle
    /\ os = OsIdle
    /\ impl \in {"dis", "voyis"}
    /\ deployed = {}
    /\ budget = [disturbances |-> 1, foreign |-> 0, frames |-> MaxFrames]

IpcFrame == UNCHANGED <<cvars, os, impl, deployed, procVars, srcVars, enrVars, snkVars, sig, last>>

\* Publisher::Publisher: zmq_bind
Publisher_ctor(p) ==
    /\ ~publisher[p] /\ ipc.bound[p] < MaxBinds
    /\ publisher' = [publisher EXCEPT ![p] = TRUE]
    /\ ipc' = [ipc EXCEPT !.bound[p] = @ + 1]
    /\ IpcFrame /\ UNCHANGED <<subscriber, tags, budget>>

\* Publisher::~Publisher: zmq_close; the peers lose their connection
Publisher_dtor(p) ==
    /\ publisher[p]
    /\ publisher' = [publisher EXCEPT ![p] = FALSE]
    /\ subscriber' = [subscriber EXCEPT ![Downstream(p)].linked = FALSE]
    /\ IpcFrame /\ UNCHANGED <<ipc, tags, budget>>

\* Subscriber::Subscriber: zmq_connect succeeds whether or not a publisher
\* is bound at the endpoint
Subscriber_ctor(u) ==
    /\ ~subscriber[u].open /\ ipc.made[u] < MaxSubscribers
    /\ subscriber' = [subscriber EXCEPT ![u] = [open |-> TRUE, linked |-> FALSE, queue |-> <<>>]]
    /\ ipc' = [ipc EXCEPT !.made[u] = @ + 1,
                          !.early[u] = ~publisher[Upstream(u)],
                          !.since[u] = -1,
                          !.result[u] = NoReceive]
    /\ IpcFrame /\ UNCHANGED <<publisher, tags, budget>>

\* Subscriber::~Subscriber: zmq_close, outside a receive call
Subscriber_dtor(u) ==
    /\ subscriber[u].open /\ ~ipc.waiting[u]
    /\ subscriber' = [subscriber EXCEPT ![u] = NoSocket]
    /\ ipc' = [ipc EXCEPT !.left[Upstream(u)] = @ \/ subscriber[u].linked]
    /\ IpcFrame /\ UNCHANGED <<publisher, tags, budget>>

\* a transport that connects once and never again
Subscriber_connected_once(u) ==
    /\ subscriber[u].open /\ ~subscriber[u].linked
    /\ publisher[Upstream(u)]
    /\ ipc.since[u] = -1
    /\ subscriber' = [subscriber EXCEPT ![u].linked = TRUE]
    /\ ipc' = [ipc EXCEPT !.since[u] = tags[Upstream(u)]]
    /\ IpcFrame /\ UNCHANGED <<publisher, tags, budget>>

\* the transport establishes (or re-establishes) the connection
Subscriber_connected(u) ==
    /\ subscriber[u].open /\ ~subscriber[u].linked
    /\ publisher[Upstream(u)]
    /\ subscriber' = [subscriber EXCEPT ![u].linked = TRUE]
    /\ ipc' = [ipc EXCEPT !.since[u] = IF @ = -1 THEN tags[Upstream(u)] ELSE @]
    /\ IpcFrame /\ UNCHANGED <<publisher, tags, budget>>

\* pub.send(data) / pub.publish(data)
Publisher_call(p) ==
    /\ publisher[p] /\ budget.frames > 0
    /\ \E data \in TestData :
       \E outcome \in (IF impl = "dis" THEN Publisher_send(p, data)
                       ELSE Publisher_publish(p, data)) :
         /\ IF outcome = "ok"
            THEN /\ subscriber' = Publish(p, [bytes |-> data, tag |-> NextTag(p)])
                 /\ tags' = Tagged(p)
            ELSE UNCHANGED <<subscriber, tags>>
         /\ budget' = [Spend(outcome) EXCEPT !.frames = @ - 1]
         /\ ipc' = [ipc EXCEPT !.sent[p] =
                      [result |-> outcome,
                       peers |-> IF subscriber[Downstream(p)].linked THEN 1 ELSE 0,
                       data |-> data,
                       bind |-> ipc.bound[p]]]
    /\ IpcFrame /\ UNCHANGED publisher

\* sub.receive(): the call is made ...
Subscriber_call(u) ==
    /\ subscriber[u].open /\ ~ipc.waiting[u]
    /\ ipc' = [ipc EXCEPT !.waiting[u] = TRUE]
    /\ IpcFrame /\ UNCHANGED <<netVars, tags, budget>>

\* ... and returns
Subscriber_return(u) ==
    /\ ipc.waiting[u]
    /\ \E outcome \in (IF impl = "dis" THEN receive(u) ELSE Subscriber_receive(u)) :
         /\ subscriber' = Received(u, outcome)
         /\ budget' = Spend(outcome)
         /\ ipc' = [ipc EXCEPT !.waiting[u] = FALSE,
                               !.result[u] =
                                  IF outcome = "message"
                                  THEN [kind |-> outcome,
                                        tag |-> Head(subscriber[u].queue).tag,
                                        bytes |-> Head(subscriber[u].queue).bytes]
                                  ELSE [NoReceive EXCEPT !.kind = outcome]]
    /\ IpcFrame /\ UNCHANGED <<publisher, tags>>

\* the endpoint the bench uses
BenchPublishers == {"source"}
BenchSubscribers == {"enricher"}

IpcNext ==
    \/ \E p \in BenchPublishers : Publisher_ctor(p)
    \/ \E p \in BenchPublishers : Publisher_dtor(p)
    \/ \E p \in BenchPublishers : Publisher_call(p)
    \/ \E u \in BenchSubscribers : Subscriber_ctor(u)
    \/ \E u \in BenchSubscribers : Subscriber_dtor(u)
    \/ \E u \in BenchSubscribers : Subscriber_connected(u)
    \/ \E u \in BenchSubscribers : Subscriber_call(u)
    \/ \E u \in BenchSubscribers : Subscriber_return(u)

SpecIPC == IpcInit /\ [][IpcNext]_vars

\* a call in progress returns, and the transport keeps trying to connect
FairSpecIPC ==
    /\ SpecIPC
    /\ \A u \in BenchSubscribers : WF_vars(Subscriber_return(u))
    /\ \A u \in BenchSubscribers : WF_vars(Subscriber_connected(u))

(***************************************************************************)
(* The end-to-end scenario: the Sink is started first, then the Enricher,  *)
(* then the Source on its folder of NumFiles images; nothing fails, nobody *)
(* sends a stop signal, and the Source is followed for one image more than *)
(* the folder holds.                                                       *)
(***************************************************************************)
E2EInit ==
    /\ CodecIdle
    /\ PipelineIdle
    /\ ipc = IpcIdle
    /\ os = OsIdle
    /\ impl \in {"dis", "voyis"}
    /\ deployed = Stages
    /\ budget = [disturbances |-> 0, foreign |-> 0, frames |-> NumFiles + 1]

Started(s) == pc[s] \notin {"off", "ctor"}

E2ESinkStep ==
    \/ DL_ctor \/ DL_run \/ DL_loop_check \/ DL_receive
    \/ DL_begin_transaction \/ DL_insert_image \/ DL_insert_keypoint
    \/ DL_insert_descriptors \/ DL_commit_transaction
    \/ vDL_setup \/ vDL_loop \/ vDL_receive
    \/ vDL_begin \/ vDL_insertImage \/ vDL_insertKeypoint \/ vDL_commit

E2ELaunch ==
    \/ DL_main
    \/ vDL_main
    \/ Started("sink") /\ FE_main
    \/ Started("sink") /\ vFE_main
    \/ Started("enricher") /\ IG_main
    \/ Started("enricher") /\ vIG_main

\* the Source's grace delay after the bind is long enough for both
\* subscribers to connect before the first image goes out
Joined == \A s \in Subscribers : subscriber[s].linked
E2ESourceStep ==
    \/ IG_ctor \/ IG_run \/ IG_publish_image
    \/ Joined /\ IG_loop_check
    \/ vIG_setup \/ vIG_publish
    \/ Joined /\ vIG_loop

E2ENext ==
    \/ E2ELaunch
    \/ E2ESourceStep \/ EnricherStep \/ E2ESinkStep
    \/ \E s \in Subscribers : Link(s)

SpecE2E == E2EInit /\ [][E2ENext]_vars

FairSpecE2E ==
    /\ SpecE2E
    /\ WF_vars(E2ELaunch) /\ WF_vars(E2ESourceStep) /\ WF_vars(EnricherStep)
    /\ WF_vars(E2ESinkStep)
    /\ \A s \in Subscribers : WF_vars(Link(s))

(***************************************************************************)
(* Wire codec properties.                                                  *)
(***************************************************************************)
Decoded(kind, decoder) ==
    cop.step = "decoded" /\ cop.kind = kind /\ cop.decoder = decoder

\* the structural defects named by the decode contract, for a message of type t
StructurallyInvalid(buf, t) ==
    IF Len(buf) < HeaderSize THEN TRUE
    ELSE \/ ReadHeader(buf).magic # MESSAGE_MAGIC
         \/ ReadHeader(buf).type # t
         \/ ReadHeader(buf).payload_size # U64(Len(buf) - HeaderSize)

\* C1: every EnrichedFrame value survives serialize followed by
\* deserialize_image_with_features, field for field.
C1_RoundTripEnrichedFrame ==
    (Decoded("EnrichedFrame", "features") /\ cop.damage = "none")
        => (cres.ok /\ cres.value = cx)

\* C2: every Frame value survives serialize followed by deserialize_image,
\* field for field (id, width, height, channels, captured_at, payload).
C2_RoundTripFrame ==
    (Decoded("Frame", "image") /\ cop.damage = "none")
        => (cres.ok /\ cres.value = cx)

C2_Witness ==
    /\ Decoded("Frame", "image") /\ cop.damage = "none"
    /\ Len(cx.filename) = MaxIdLen /\ Len(cx.data) = MaxPayloadLen
    /\ cx.width = U32(0)
    /\ cres.ok /\ cres.value.data = cx.data

\* C3: deserialize_image throws, and returns no Frame, for every buffer shorter
\* than 64 bytes, with a foreign magic, with a kind tag other than IMAGE, or with a
\* payload_size other than total length - 64.
C3_FrameDecodeRejects ==
    (cop.step = "decoded" /\ cop.decoder = "image" /\ StructurallyInvalid(cbuf, IMAGE))
        => ~cres.ok

C3_Witness ==
    /\ Decoded("Frame", "image") /\ cop.damage = "magic"
    /\ ReadHeader(cbuf).type = IMAGE
    /\ ReadHeader(cbuf).payload_size = U64(Len(cbuf) - HeaderSize)
    /\ ~cres.ok /\ cres.error = "Invalid magic number in header"

\* C4: deserialize_image_with_features throws for every buffer shorter than 64
\* bytes, with a foreign magic, with a kind tag other than IMAGE_WITH_FEATURES, or
\* with a payload_size other than total length - 64.
C4_EnrichedDecodeRejects ==
    (cop.step = "decoded" /\ cop.decoder = "features"
       /\ StructurallyInvalid(cbuf, IMAGE_WITH_FEATURES))
        => ~cres.ok

\* count elements of size bytes each do not fit into room bytes (no wrap-around)
Overruns(count, size, room) ==
    GtLE(MulLE(Widen(count, 16), LE(size, 16)), LE(room, 16))

\* C18: deserialize_image_with_features throws when the keypoint count it
\* reads stands for more bytes (28 each) than follow it in the buffer, or the
\* descriptor count for more floats than follow it; what it returns was read
\* from inside the buffer.
C18_CountsAreChecked ==
    LET h == ReadHeader(cbuf)
        room == Len(cbuf) - HeaderSize
        idlen == ToNat(h.filename_length)
        kpos == HeaderSize + idlen + ToNat(ImageDataSize(h))
        kc == SubSeq(cbuf, kpos + 1, kpos + 4)
        dpos == kpos + 4 + KeypointSize * ToNat(kc)
        dc == SubSeq(cbuf, dpos + 1, dpos + 4)
    IN  (/\ cop.step = "decoded" /\ cop.decoder = "features"
         /\ room >= 0
         /\ h.magic = MESSAGE_MAGIC /\ h.type = IMAGE_WITH_FEATURES
         /\ ~Overruns(h.filename_length, 1, room)
         /\ ~Overruns(ImageDataSize(h), 1, room - idlen))
        => IF kpos + 4 > Len(cbuf) THEN ~cres.ok
           ELSE IF Overruns(kc, KeypointSize, Len(cbuf) - (kpos + 4)) THEN ~cres.ok
           ELSE IF dpos + 4 > Len(cbuf) THEN ~cres.ok
           ELSE IF Overruns(dc, FloatSize, Len(cbuf) - (dpos + 4)) THEN ~cres.ok
           ELSE cres.ok =>
                  /\ Len(cres.value.keypoints) = ToNat(kc)
                  /\ Len(cres.value.descriptors) = ToNat(dc)
                  /\ dpos + 4 + FloatSize * ToNat(dc) <= Len(cbuf)

C18_Witness ==
    /\ cop.step = "decoded" /\ cop.decoder = "features"
    /\ cop.damage = "keypoint_count" /\ Len(cx.keypoints) = MaxKeypoints
    /\ ~cres.ok /\ cres.error = "Buffer underflow: not enough data for vector"

\* C19: the encoding of a Frame is a 64-byte header, the id bytes and the
\* payload bytes, 64 + len(id) + len(payload) bytes in all; the header's
\* payload_size is len(id) + len(payload) and its filename_length is len(id).
C19_FrameLayout ==
    (cop.kind = "Frame" /\ cop.step = "encoded")
    => /\ Len(cbuf) = 64 + Len(cx.filename) + Len(cx.data)
       /\ ReadHeader(cbuf).payload_size = U64(Len(cx.filename) + Len(cx.data))
       /\ ReadHeader(cbuf).filename_length = U32(Len(cx.filename))
       /\ SubSeq(cbuf, 65, 64 + Len(cx.filename)) = cx.filename
       /\ SubSeq(cbuf, 65 + Len(cx.filename), Len(cbuf)) = cx.data
       /\ HeaderSize = 64

C19_Witness ==
    /\ cop.kind = "Frame" /\ cop.step = "encoded"
    /\ Len(cx.filename) = MaxIdLen /\ Len(cx.data) = MaxPayloadLen
    /\ Len(cbuf) = 64 + MaxIdLen + MaxPayloadLen

(***************************************************************************)
(* Pipeline properties.                                                    *)
(***************************************************************************)
StoreSteps == {"begin", "image", "keypoints", "descriptors", "commit", "rollback"}

\* contents d with one keypoint row per keypoint of kps, all referencing id
RECURSIVE WithKeypoints(_, _, _)
WithKeypoints(d, id, kps) ==
    IF kps = <<>> THEN d
    ELSE WithKeypoints(Inserted(d, "keypoints", KeypointRow(id, Head(kps))), id, Tail(kps))

\* contents d with every row derived from EnrichedFrame f
WithFrame(d, f, tag) ==
    LET d1 == Inserted(d, "images", ImageRow(f, tag))
        d2 == WithKeypoints(d1, d1.seq.images, f.keypoints)
    IN  IF f.descriptors # <<>>
        THEN Inserted(d2, "descriptors", DescriptorRow(d1.seq.images, f))
        ELSE d2

\* contents d with one keypoint row per keypoint of msg from the i-th on
RECURSIVE WithKeyPoints(_, _, _, _)
WithKeyPoints(d, id, msg, i) ==
    IF i > Len(msg.keypoints) THEN d
    ELSE WithKeyPoints(Inserted(d, "keypoints", ProcessedKeypointRow(id, msg, i)),
                       id, msg, i + 1)

\* contents d with every row derived from ProcessedImageMessage msg
WithProcessedImage(d, msg, tag) ==
    LET d1 == Inserted(d, "images", ProcessedImageRow(msg, tag))
    IN  WithKeyPoints(d1, d1.seq.images, msg, 1)

\* contents d with every row derived from the EnrichedFrame
Stored(d, f, tag) ==
    IF impl = "dis" THEN WithFrame(d, f, tag) ELSE WithProcessedImage(d, f, tag)

\* C5: when a store call returns, either the parent record, every keypoint row
\* and the descriptor data of its EnrichedFrame are committed, or nothing is
\* and the contents are those from before the call, whichever step failed.
C5_StoreAtomic ==
    [][(pc["sink"] \in StoreSteps /\ pc'["sink"] \notin StoreSteps) =>
          \/ db' = Stored(cursor.before, dl_data.frame, dl_data.tag) /\ ~txn'.active
          \/ db' = cursor.before /\ View' = cursor.before]_vars

C5_Witness ==
    /\ last["sink"].outcome = "store_error" /\ pc["sink"] = "check"
    /\ cursor.image_id = 2 /\ cursor.next > 1
    /\ Len(db.images) = 1 /\ db = cursor.before /\ ~txn.active

\* what a stage holds of the transport
Endpoints(s) ==
    <<s \in Publishers /\ publisher[s], s \in Subscribers /\ subscriber[s].open>>

\* C6: a per-message failure (receive, decode, transform, publish or store)
\* leaves the stage Running at the head of its loop with its endpoints and its
\* flag as they were, and the loop is left only with the flag cleared.
C6_FailuresAreNotFatal ==
    [][\A s \in Stages :
         /\ (StageState(s) = "Running" /\ StageState(s)' # "Running")
               => (~running[s] /\ StageState(s)' = "Stopped")
         /\ (last'[s] # last[s] /\ last'[s].outcome \in Failures \ {"ctor_error"})
               => (pc'[s] = "check" /\ running'[s] = running[s]
                     /\ Endpoints(s)' = Endpoints(s))]_vars

C6_Witness ==
    /\ "decode_error" \in last["enricher"].seen
    /\ last["enricher"].outcome = "published"
    /\ images_processed = 1
    /\ StageState("enricher") = "Running"

\* C7: between store calls the Sink's connection has no open transaction and
\* its subscriber is open, also after a store call that failed; a failed store
\* call does not end the Sink.
C7_NoLeftoverTransaction ==
    /\ pc["sink"] \in {"check", "recv", "begin"}
          => (~txn.active /\ subscriber["sink"].open)
    /\ "store_error" \in last["sink"].seen => pc["sink"] # "failed"

C7_Witness ==
    /\ "store_error" \in last["sink"].seen
    /\ last["sink"].outcome = "stored"
    /\ images_logged = 1 /\ Len(db.images) = 1
    /\ StageState("sink") = "Running"

\* C8: no Frame is transformed twice by the Enricher and no EnrichedFrame has
\* two parent records, in any interleaving, with stops and restarts.
C8_AtMostOnce ==
    /\ \A i, j \in DOMAIN derived : derived[i].from = derived[j].from => i = j
    /\ \A i, j \in DOMAIN db.images : db.images[i].tag = db.images[j].tag => i = j
    /\ \A i, j \in DOMAIN View.images : View.images[i].tag = View.images[j].tag => i = j

C8_Witness ==
    /\ deployed = Stages
    /\ last["enricher"].run = 2
    /\ \E i \in DOMAIN db.images, j \in DOMAIN derived :
         /\ db.images[i].tag = derived[j].out
         /\ derived[j].from = <<"source", 2>>

\* C9: a stage signalled while Running reaches Stopped, and from the head of
\* its loop it does not go into another iteration.
C9_StopIsObserved ==
    /\ \A s \in Stages : sig[s].whileRunning ~> (StageState(s) = "Stopped")
    /\ [][\A s \in Stages :
            (sig[s].whileRunning /\ pc[s] = "check") => pc'[s] \in {"check", "stopped"}]_vars

C9_Witness ==
    /\ sig["sink"].whileRunning /\ StageState("sink") = "Stopped"
    /\ images_logged = 1

\* C10: once the stop flag has been set a stage does not enter Running, and a
\* stopped stage does nothing more (a new process may be started in its place).
C10_StoppedIsTerminal ==
    [][\A s \in Stages :
         /\ (sig[s].flagSet /\ StageState(s) # "Running") => StageState(s)' # "Running"
         /\ StageState(s) = "Stopped" => pc'[s] \in {"stopped", "ctor"}]_vars

\* C11: a step of the signal handler leaves the endpoints, the database and
\* its transaction, the counters and the Source's position as they were, and
\* changes no flag except the signalled stage's, from true to false.
C11_HandlerTouchesOnlyTheFlag ==
    [][\A s \in Stages :
         (signal_handler(s) \/ signalHandler(s)) =>
            /\ UNCHANGED <<netVars, db, txn, image_index, images_sent,
                           images_processed, total_features_extracted,
                           images_logged, keypoints_logged, pc>>
            /\ \A t \in Stages :
                  running'[t] # running[t] => (t = s /\ running[t] /\ ~running'[t])]_vars

C11_Witness ==
    /\ sig["sink"].flagSet /\ ~running["sink"]
    /\ pc["sink"] \in {"image", "keypoints", "commit"} /\ txn.active
    /\ subscriber["sink"].open /\ images_logged = 1

(***************************************************************************)
(* Transport properties.                                                   *)
(***************************************************************************)
\* C12: a receive call returns: with nothing queued and no failure of the
\* transport it returns the empty result, leaves the socket as it was and
\* raises nothing.
C12_ReceiveReturns ==
    /\ \A u \in BenchSubscribers : ipc.waiting[u] ~> ~ipc.waiting[u]
    /\ [][\A u \in BenchSubscribers :
            (/\ ipc.waiting[u] /\ ~ipc'.waiting[u]
             /\ subscriber[u].queue = <<>>
             /\ budget' = budget)
            => /\ ipc'.result[u] = [NoReceive EXCEPT !.kind = "timeout"]
               /\ subscriber' = subscriber]_vars

C12_Witness ==
    /\ ipc.result["enricher"].kind = "timeout" /\ ~ipc.waiting["enricher"]
    /\ ipc.bound["source"] = 0

\* C13: a publish on a bound endpoint succeeds unless the transport fails,
\* with or without a connected subscriber (dis rejects empty data, again
\* with or without a subscriber).
C13_PublishNeedsNoSubscriber ==
    [][\A p \in BenchPublishers :
         (/\ budget'.frames < budget.frames
          /\ budget'.disturbances = budget.disturbances)
         => /\ ipc'.sent[p].result =
                 (IF impl = "dis" /\ ipc'.sent[p].data = <<>> THEN "rejected" ELSE "ok")
            /\ publisher'[p]]_vars

C13_Witness ==
    /\ ipc.left["source"] /\ ipc.sent["source"].result = "ok"
    /\ ipc.sent["source"].peers = 0 /\ tags["source"] = 2
    /\ ~subscriber["enricher"].open

C15_AnyStartOrder ==
    /\ \A u \in BenchSubscribers :
         (subscriber[u].open /\ publisher[Upstream(u)])
            ~> (subscriber[u].linked \/ ~subscriber[u].open \/ ~publisher[Upstream(u)])
    /\ [][\A p \in BenchPublishers :
            (/\ budget'.frames < budget.frames
             /\ ipc'.sent[p].result = "ok"
             /\ subscriber[Downstream(p)].linked
             /\ Len(subscriber[Downstream(p)].queue) < MaxQueue)
            => subscriber'[Downstream(p)].queue =
                  Append(subscriber[Downstream(p)].queue,
                         [bytes |-> ipc'.sent[p].data, tag |-> <<p, tags'[p]>>])]_vars

C15_Witness ==
    /\ ipc.early["enricher"] /\ ipc.made["enricher"] = 1
    /\ ipc.sent["source"].bind = 2 /\ ipc.sent["source"].result = "ok"
    /\ ipc.result["enricher"].kind = "message"
    /\ ipc.result["enricher"].tag = <<"source", tags["source"]>>

(***************************************************************************)
(* Consumers and the store.                                                *)
(***************************************************************************)
\* the payload of the message a consumer took from its subscriber
Payload(m) ==
    IF impl = "voyis" THEN m.frame.image_data
    ELSE IF "image" \in DOMAIN m.frame THEN m.frame.image.data ELSE m.frame.data

\* C16: a message with an empty payload is dropped where a timeout is: the
\* Enricher does not go on to transform it and records no failure for it,
\* the Sink does not go on to store it.
C16_EmptyPayloadIsNoMessage ==
    /\ pc["enricher"] = "process" => Payload(fe_image) # <<>>
    /\ pc["sink"] \in {"begin", "image", "keypoints", "descriptors", "commit", "rollback"}
          => Payload(dl_data) # <<>>
    /\ \A i \in DOMAIN View.images : View.images[i].image_data # <<>>

\* the child rows of contents d that reference no parent row of d
Orphans(d) ==
    LET parents == {d.images[i].id : i \in DOMAIN d.images}
    IN  {d.keypoints[i] : i \in {j \in DOMAIN d.keypoints : d.keypoints[j].image_id \notin parents}}
        \cup {d.descriptors[i] :
                 i \in {j \in DOMAIN d.descriptors : d.descriptors[j].image_id \notin parents}}

\* C17: in the end-to-end scenario the store comes to hold one parent row per
\* image of the folder, as many keypoint rows as the Enricher reported, and
\* no orphan, and stays so.
C17_EndToEnd ==
    <>[](/\ Len(db.images) = NumFiles
         /\ Len(db.keypoints) = total_features_extracted
         /\ Orphans(db) = {})

\* the rows of table t that d2 has and d1 does not have yet
NewRows(d1, d2, t) == {d2[t][i] : i \in (Len(d1[t]) + 1)..Len(d2[t])}

\* C20: the committed contents, and the contents a statement sees, hold no
\* keypoint or descriptor row without its parent row, also after store calls
\* that failed; the child rows a step commits reference the parent row of
\* the same store call, the newest one.
C20_NoOrphans ==
    /\ [](Orphans(db) = {} /\ Orphans(View) = {})
    /\ [][\A t \in {"keypoints", "descriptors"} :
            \A r \in NewRows(db, db', t) :
               /\ db'.images # <<>>
               /\ r.image_id = db'.images[Len(db'.images)].id
               /\ db'.images[Len(db'.images)].tag = dl_data.tag]_vars

C20_Witness ==
    /\ Len(db.images) = 1 /\ Len(db.keypoints) >= 1
    /\ Orphans(db) = {}
    /\ last["sink"].outcome = "store_error" /\ pc["sink"] = "check"
    /\ cursor.image_id = 2 /\ cursor.next > 1


(***************************************************************************)
(* Start-up and shut-down properties.                                      *)
(***************************************************************************)
\* C21: a stage whose construction fails (the bind, the connect, the opening
\* or the initialisation of the database) has not entered Running; the failing
\* step receives, publishes and stores nothing except that the stage's own
\* sockets are closed, the process ends with exit status 1, and it does nothing
\* more.
C21_ConstructionFailureIsFatal ==
    [][\A s \in Stages :
         /\ (pc[s] = "ctor" /\ pc'[s] # "ctor") =>
               \/ pc'[s] = "ready" /\ os'.threw[s] = "nothing" /\ os'.status[s] = -1
               \/ /\ pc'[s] = "failed" /\ os'.status[s] = 1
                  /\ os'.threw[s] \in {Construction(s)[i].call : i \in DOMAIN Construction(s)}
                  /\ UNCHANGED <<tags, db, txn, images_sent, images_processed, images_logged>>
                  /\ \A u \in Subscribers : subscriber'[u].queue \in {subscriber[u].queue, <<>>}
         /\ pc[s] = "failed" => (pc'[s] \in {"failed", "ctor"} /\ os.status[s] = 1)]_vars

C21_Witness ==
    /\ pc["sink"] = "failed" /\ os.status["sink"] = 1
    /\ os.threw["sink"] = "sqlite3_open"
    /\ pc["enricher"] = "failed" /\ os.threw["enricher"] = "Publisher"
    /\ tags["source"] = 1 /\ images_processed = 0 /\ images_logged = 0

\* C22: a stage that has left its loop, and one whose construction failed at
\* any step, holds no endpoint and no database handle when its process ends; a
\* stage in its loop holds what its construction acquired, also after a
\* failure on one message.
C22_EverythingIsReleased ==
    \A s \in Stages :
        /\ pc[s] \in {"stopped", "failed"} => os.held[s] = {}
        /\ StageState(s) = "Running" => os.held[s] = Constructed(s)

\* the keypoint rows of contents d that belong to image row r
KeypointsOf(d, r) == {i \in DOMAIN d.keypoints : d.keypoints[i].image_id = r.id}

\* contents d hold whole EnrichedFrames only: every child row has its parent,
\* and every parent has as many keypoint rows as its frame had keypoints (the
\* count the parent row records, or the one the descriptor blob of 4-byte
\* floats implies)
WholeFrames(d) ==
    /\ Orphans(d) = {}
    /\ \A i \in DOMAIN d.images :
          LET r == d.images[i]
              n == Cardinality(KeypointsOf(d, r))
              blobs == {j \in DOMAIN d.descriptors : d.descriptors[j].image_id = r.id}
          IN  IF impl = "voyis" THEN r.num_keypoints = n
              ELSE /\ Cardinality(blobs) = (IF n = 0 THEN 0 ELSE 1)
                   /\ \A j \in blobs :
                         Len(d.descriptors[j].descriptor_data) = 4 * n * DescriptorCols

\* C23: a stop signal does not interrupt a store call: a signal that arrives
\* inside one changes neither the Sink's position nor the store, the Sink
\* leaves a store call only for the head of its loop and with the
\* transaction closed, and it reaches Stopped only from the head of the loop,
\* with no transaction open and whole EnrichedFrames in the store.
C23_StopWaitsForTheStore ==
    [][/\ (pc["sink"] \in StoreSteps /\ sig'["sink"] # sig["sink"]) =>
             UNCHANGED <<pc, db, txn, cursor, dl_data>>
       /\ (pc["sink"] \in StoreSteps /\ pc'["sink"] \notin StoreSteps) =>
             (pc'["sink"] = "check" /\ ~txn'.active /\ WholeFrames(db'))
       /\ (pc["sink"] # "stopped" /\ pc'["sink"] = "stopped") =>
             /\ pc["sink"] \notin StoreSteps /\ ~running["sink"]
             /\ ~txn.active /\ db' = db /\ WholeFrames(db)]_vars

C23_Witness ==
    /\ StageState("sink") = "Stopped" /\ sig["sink"].whileRunning
    /\ last["sink"].outcome = "store_error"
    /\ Len(db.images) = 1 /\ db.keypoints # <<>> /\ WholeFrames(db)

\* C24: the Source's list is the folder's files in sorted order, whatever the
\* order of the listing; its k-th publish attempt (k = 0, 1, ...) is for file
\* number k mod NumFiles, whether or not earlier attempts failed; every
\* attempt adds one line and moves on by one; the loop is left only with the
\* stop flag set.
C24_SortedAndCyclic ==
    /\ [](/\ os.paths \in {<<>>, [i \in 1..NumFiles |-> i]}
          /\ \A k \in DOMAIN os.out : os.out[k].path = ((k - 1) % NumFiles) + 1)
    /\ [][/\ (pc["source"] = "body" /\ pc'["source"] # "body") =>
               /\ Len(os'.out) = Len(os.out) + 1
               /\ SubSeq(os'.out, 1, Len(os.out)) = os.out
               /\ image_index' = (image_index + 1) % NumFiles
               /\ os'.paths = os.paths
          /\ (pc["source"] \in {"ready", "check", "body"} /\ pc'["source"] = "stopped") =>
               ~running["source"]]_vars

C24_Witness ==
    /\ os.folder = Unsorted /\ Len(os.out) = NumFiles + 2
    /\ os.out[1].outcome = "load_error"
    /\ \A k \in 2..(NumFiles + 2) : os.out[k].outcome = "sent"

\* C26: the Frames the Source has published in one run carry pairwise
\* different ids.
C26_IdsAreUnique ==
    \A i, j \in DOMAIN os.out :
        (i < j /\ os.out[i].outcome = "sent" /\ os.out[j].outcome = "sent") =>
            os.out[i].id # os.out[j].id

\* C25: an EnrichedFrame encoding is decoded successfully only if its
\* descriptor block holds one row of DescriptorCols values per keypoint.
C25_DescriptorBlockIsChecked ==
    (Decoded("EnrichedFrame", "features") /\ cres.ok) =>
        Len(cres.value.descriptors) = DescriptorCols * Len(cres.value.keypoints)

\* C27: deserialize applied to what serialize returns gives back the message,
\* field by field, for ImageMessage (empty image_data included) and for
\* ProcessedImageMessage (no keypoints, no descriptors, and descriptor
\* vectors of different lengths included).
C27_MessageRoundTrip ==
    /\ (Decoded("ImageMessage", "ImageMessage") /\ cop.damage = "none") =>
          (cres.ok /\ \A f \in DOMAIN ImageMessage : cres.value[f] = cx[f])
    /\ (Decoded("ProcessedImageMessage", "ProcessedImageMessage") /\ cop.damage = "none") =>
          (cres.ok /\ \A f \in DOMAIN ProcessedImageMessage : cres.value[f] = cx[f])

C27_Witness ==
    /\ Decoded("ProcessedImageMessage", "ProcessedImageMessage") /\ cop.damage = "none"
    /\ cx.image_data = <<>> /\ cx.keypoints = <<>>
    /\ cx.descriptors = <<SampleVector(MaxVectorLen), SampleVector(0)>>
    /\ cres.ok /\ cres.value = cx

\* C28: with voyis::Publisher and voyis::Subscriber, publishing no bytes
\* returns true like any other publish and queues an empty message at a
\* connected subscriber; receive returns true exactly when a message was
\* queued, with the bytes of that message, which may be none, and false when
\* the timeout passed with nothing queued.
C28_EmptyMessageIsAMessage ==
    [][impl = "voyis" =>
         /\ \A p \in BenchPublishers :
              (/\ budget'.frames < budget.frames
               /\ budget'.disturbances = budget.disturbances
               /\ ipc'.sent[p].data = <<>>) =>
                  /\ ipc'.sent[p].result = "ok"
                  /\ subscriber[Downstream(p)].linked =>
                        /\ subscriber'[Downstream(p)].queue # <<>>
                        /\ subscriber'[Downstream(p)].queue[
                               Len(subscriber'[Downstream(p)].queue)].bytes = <<>>
         /\ \A u \in BenchSubscribers :
              (/\ ipc.waiting[u] /\ ~ipc'.waiting[u]
               /\ budget'.disturbances = budget.disturbances) =>
                  IF subscriber[u].queue = <<>>
                  THEN ipc'.result[u].kind = "timeout"
                  ELSE /\ ipc'.result[u].kind = "message"
                       /\ ipc'.result[u].bytes = Head(subscriber[u].queue).bytes
                       /\ subscriber'[u].queue = Tail(subscriber[u].queue)]_vars

C28_Witness ==
    /\ impl = "voyis"
    /\ ipc.sent["source"].result = "ok" /\ ipc.sent["source"].data = <<>>
    /\ ipc.result["enricher"].kind = "message" /\ ipc.result["enricher"].bytes = <<>>
    /\ ipc.result["enricher"].tag = <<"source", tags["source"]>>

\* C29: an executable started with --help as its only argument prints its
\* usage and exits with status 0, and its stage is never made: nothing is
\* bound, connected or opened.
C29_HelpExitsWithSuccess ==
    \A s \in Stages :
        (os.argv[s] = <<"--help">> /\ pc[s] # "off") =>
            /\ pc[s] = "stopped" /\ os.status[s] = 0 /\ os.printed[s] = "usage"
            /\ os.held[s] = {} /\ os.threw[s] = "nothing"

\* C30: a stop signal delivered to a stage that has installed its handlers
\* and has not yet entered its loop is not lost: the stage ends, Stopped or
\* Failed, without another signal, and at the head of its loop its only step
\* is the one that leaves the loop.
C30_EarlySignalIsNotLost ==
    /\ \A s \in Stages : sig[s].early ~> (StageState(s) \in {"Stopped", "Failed"})
    /\ [][\A s \in Stages :
            (sig[s].early /\ pc[s] = "check") => pc'[s] \in {"check", "stopped"}]_vars

\* C31: the Sink's images counter is the number of store calls that
\* committed in this run and its keypoints counter is the sum of the keypoint
\* counts of the EnrichedFrames of those calls: the counters start at zero
\* with the run, every step that adds an image row to the committed contents
\* is the commit of a store call and adds one and the keypoint count of its
\* EnrichedFrame, and every other step (a failed statement, a rollback,
\* anything outside the store) leaves the committed contents and both
\* counters as they are, so neither counter ever decreases within a run.
C31_CountersFollowCommits ==
    [][LET images == Len(db'.images) - Len(db.images)
           keypoints == Len(db'.keypoints) - Len(db.keypoints)
       IN  IF pc["sink"] # "ctor" /\ pc'["sink"] = "ctor"
           THEN images_logged' = 0 /\ keypoints_logged' = 0 /\ db' = db
           ELSE /\ images \in {0, 1}
                /\ images_logged' = images_logged + images
                /\ keypoints_logged' = keypoints_logged + keypoints
                /\ images = 1 =>
                      /\ pc["sink"] = "commit" /\ pc'["sink"] = "check"
                      /\ last'["sink"].outcome = "stored"
                      /\ keypoints = Len(dl_data.frame.keypoints)
                /\ images = 0 =>
                      /\ db' = db
                      /\ ~(pc["sink"] = "commit" /\ pc'["sink"] = "check")]_vars

\* a second run of the Sink has committed one EnrichedFrame with a keypoint;
\* the row the first run committed is in the database and is not counted
C31_Witness ==
    /\ images_logged = 1 /\ keypoints_logged = 1
    /\ Len(db.images) = 2 /\ last["sink"].run = 2
    /\ last["sink"].outcome = "stored"

\* C32: the Enricher's images_processed is the number of received non-empty
\* Frames of this run whose transform succeeded, whether or not the publish
\* that follows succeeded: the counters start at zero with the run, only the
\* step that transforms a received Frame advances them, by one and by the
\* number of keypoints found, it does so exactly when the transform succeeds,
\* and an EnrichedFrame is published only in a step that counts; a receive,
\* decode or transform failure leaves both counters unchanged.
C32_ProcessedCountsTransforms ==
    [][LET transformed == Len(derived') - Len(derived)
           published == tags'["enricher"] - tags["enricher"]
           step == pc["enricher"] = "process" /\ pc'["enricher"] # "process"
       IN  IF pc["enricher"] # "ctor" /\ pc'["enricher"] = "ctor"
           THEN images_processed' = 0 /\ total_features_extracted' = 0
           ELSE /\ transformed \in {0, 1} /\ published \in {0, 1}
                /\ published <= transformed
                /\ images_processed' = images_processed + transformed
                /\ total_features_extracted' >= total_features_extracted
                /\ transformed = 1 <=>
                      (step /\ last'["enricher"].outcome \in {"published", "publish_error"})
                /\ published = 1 <=> (step /\ last'["enricher"].outcome = "published")
                /\ transformed = 1 =>
                      /\ IF impl = "dis" THEN fe_image.frame.data # <<>>
                         ELSE fe_image.frame.image_data # <<>>
                      /\ derived'[Len(derived')].from = fe_image.tag
                /\ transformed = 0 => total_features_extracted' = total_features_extracted
                /\ (step /\ last'["enricher"].outcome = "transform_error") =>
                      transformed = 0
                /\ (pc["enricher"] = "recv" /\ pc'["enricher"] \notin {"recv", "process"}) =>
                      transformed = 0]_vars

\* the Enricher has transformed two Frames and published one of them
C32_Witness ==
    /\ images_processed = 2 /\ total_features_extracted = 1
    /\ Len(SelectSeq(derived, LAMBDA d : d.out = <<"none", 0>>)) = 1
    /\ Len(SelectSeq(derived, LAMBDA d : d.out # <<"none", 0>>)) = 1
    /\ last["enricher"].outcome = "publish_error"

\* C33: deserialize_image accepts a buffer if and only if it has at least
\* 64 bytes, its magic and kind are those of a Frame, its payload_size is the
\* length minus 64 and its id_length is at most payload_size; of an accepted
\* buffer the id is the id_length bytes after the header and the payload is
\* every byte after the id, and no buffer is rejected by the check of the
\* payload length that follows the id.
C33_FrameDecodeAccepts ==
    (cop.step = "decoded" /\ cop.decoder = "image") =>
        LET n == Len(cbuf)
            h == ReadHeader(cbuf)
            idlen == ToNat(h.filename_length)
        IN  /\ cres.ok <=>
                  /\ n >= HeaderSize
                  /\ h.magic = MESSAGE_MAGIC /\ h.type = IMAGE
                  /\ h.payload_size = U64(n - HeaderSize)
                  /\ ~GtLE(Widen(h.filename_length, 8), h.payload_size)
            /\ cres.ok =>
                  /\ cres.value.filename = SubSeq(cbuf, HeaderSize + 1, HeaderSize + idlen)
                  /\ cres.value.data = SubSeq(cbuf, HeaderSize + idlen + 1, n)
                  /\ Len(cres.value.filename) = idlen
                  /\ Len(cres.value.data) = n - HeaderSize - idlen
            /\ ~cres.ok => cres.error # "Invalid image data size"

\* a Frame whose id_length was raised by one is accepted: the first payload
\* byte has become the last byte of the id
C33_Witness ==
    /\ Decoded("Frame", "image") /\ cop.damage = "filename_length"
    /\ cres.ok
    /\ cres.value.filename = cx.filename \o <<Head(cx.data)>>
    /\ cres.value.data = Tail(cx.data)

\* C34: the EnrichedFrame the Enricher publishes for a Frame it transformed
\* carries the id, the payload bytes and the captured_at of that Frame (and
\* its format, where the message has one); the dimensions are those of the
\* decoded image and the feature set is the one the transform found.
C34_EnrichedFrameKeepsTheFrame ==
    [][(/\ pc["enricher"] = "process"
        /\ tags'["enricher"] # tags["enricher"]
        /\ Len(subscriber'["sink"].queue) = Len(subscriber["sink"].queue) + 1) =>
          LET f == fe_image.frame
              q == subscriber'["sink"].queue
              m == q[Len(q)]
          IN  /\ m.tag = <<"enricher", tags'["enricher"]>>
              /\ IF impl = "dis"
                 THEN LET h == ReadHeader(m.bytes)
                          idlen == Len(f.filename)
                          paylen == Len(f.data)
                      IN  /\ h.type = IMAGE_WITH_FEATURES
                          /\ h.filename_length = U32(idlen)
                          /\ h.timestamp = f.timestamp
                          /\ SubSeq(m.bytes, HeaderSize + 1, HeaderSize + idlen) = f.filename
                          /\ SubSeq(m.bytes, HeaderSize + idlen + 1,
                                    HeaderSize + idlen + paylen) = f.data
                          /\ \E w \in 1..MaxDim, k \in 0..MaxKeypoints :
                                /\ h.width = U32(w) /\ h.height = U32(1)
                                /\ h.channels = U32(3)
                                /\ m.bytes =
                                     serialize_image_with_features(
                                        [image |-> [f EXCEPT !.width = U32(w),
                                                             !.height = U32(1),
                                                             !.channels = U32(3)],
                                         keypoints |-> SampleKeypoints(k),
                                         descriptors |->
                                            SampleDescriptors(k * DescriptorCols)])
                 ELSE LET r == ProcessedImageMessage_deserialize(m.bytes)
                      IN  /\ r.ok
                          /\ r.value.image_id = f.image_id
                          /\ r.value.image_data = f.image_data
                          /\ r.value.timestamp = f.timestamp
                          /\ r.value.format = f.format
                          /\ r.value.width = U32(Len(f.image_data))
                          /\ r.value.height = U32(1)
                          /\ Len(r.value.keypoints) = Len(r.value.descriptors)]_vars

\* the Sink's socket holds the EnrichedFrame made from the Source's second
\* Frame: the dimensions differ from the Frame's, the rest is the Frame's
C34_Witness ==
    /\ impl = "dis"
    /\ \E i \in DOMAIN subscriber["sink"].queue :
         LET m == subscriber["sink"].queue[i]
             h == ReadHeader(m.bytes)
         IN  /\ m.tag[1] = "enricher"
             /\ \E j \in DOMAIN derived :
                   derived[j].out = m.tag /\ derived[j].from = <<"source", 2>>
             /\ h.width = U32(MaxDim) /\ h.timestamp = load_image_file(2).timestamp
             /\ SubSeq(m.bytes, HeaderSize + 1, HeaderSize + 4) =
                   FileName(2) \o FileData(2)

\* C35: for every ProcessedImageMessage that storeProcessedImage commits,
\* one keypoint row per keypoint is written and nothing else, every one of
\* them references the new image row, whose num_keypoints is the number of
\* keypoints, whatever the number of descriptors; the row of keypoint i holds
\* descriptors[i] when there is one and it is not empty, and NULL otherwise;
\* a descriptor without a keypoint is in none of the rows written.
C35_RowsFollowKeypoints ==
    [][(impl = "voyis" /\ pc["sink"] = "commit" /\ pc'["sink"] = "check"
        /\ Len(db'.images) = Len(db.images) + 1) =>
          LET msg == dl_data.frame
              k == Len(msg.keypoints)
              n == Len(msg.descriptors)
              row == db'.images[Len(db'.images)]
              old == Len(db.keypoints)
          IN  /\ Len(db'.keypoints) = old + k
              /\ db'.descriptors = db.descriptors
              /\ row.num_keypoints = k /\ row.image_id = msg.image_id
              /\ \A j \in 1..old : db'.keypoints[j] = db.keypoints[j]
              /\ \A j \in 1..old : db'.keypoints[j].image_id # row.id
              /\ \A i \in 1..k :
                    LET r == db'.keypoints[old + i]
                    IN  /\ r.image_id = row.id
                        /\ r.kp = msg.keypoints[i]
                        /\ r.descriptor =
                              IF i <= n /\ msg.descriptors[i] # <<>>
                              THEN Flatten(msg.descriptors[i]) ELSE <<"NULL">>
              /\ \A i \in (k + 1)..n :
                    msg.descriptors[i] # <<>> =>
                      \A j \in (old + 1)..Len(db'.keypoints) :
                          db'.keypoints[j].descriptor # Flatten(msg.descriptors[i])]_vars

\* a message with two keypoints and one descriptor was committed after a
\* message with one keypoint and no descriptor: the rows of the second
\* message reference the second image row, the first with its descriptor,
\* the second with NULL
C35_Witness ==
    /\ impl = "voyis" /\ images_logged = 2 /\ keypoints_logged = 3
    /\ Len(db.images) = 2 /\ Len(db.keypoints) = 3
    /\ db.images[2].num_keypoints = 2
    /\ db.keypoints[1].image_id = 1 /\ db.keypoints[1].descriptor = <<"NULL">>
    /\ db.keypoints[2].image_id = 2
    /\ db.keypoints[2].descriptor = Flatten(StoreDescriptor(1))
    /\ db.keypoints[3].image_id = 2 /\ db.keypoints[3].descriptor = <<"NULL">>

\* C36: ImageMessage::deserialize and ProcessedImageMessage::deserialize
\* either throw or return a message read from inside the buffer: what they
\* return serializes to the leading bytes of the buffer, so nothing in it
\* comes from behind the end; and every strict prefix of a serialized
\* message is rejected by the deserialize function of its type.
C36_ReadsStayInside ==
    (cop.step = "decoded" /\ cop.decoder \in {"ImageMessage", "ProcessedImageMessage"}) =>
        /\ cres.ok =>
              LET out == IF cop.decoder = "ImageMessage"
                         THEN ImageMessage_serialize(cres.value)
                         ELSE ProcessedImageMessage_serialize(cres.value)
              IN  /\ Len(out) <= Len(cbuf)
                  /\ out = SubSeq(cbuf, 1, Len(out))
        /\ (cop.damage = "truncated" /\ cop.decoder = cop.kind) => ~cres.ok

\* a ProcessedImageMessage cut inside its last descriptor is rejected
C36_Witness ==
    /\ Decoded("ProcessedImageMessage", "ProcessedImageMessage")
    /\ cop.damage = "truncated"
    /\ cx.descriptors # <<>> /\ cx.descriptors[Len(cx.descriptors)] # <<>>
    /\ Len(cbuf) = Len(ProcessedImageMessage_serialize(cx)) - 1
    /\ ~cres.ok /\ cres.error = "Insufficient data to read value"

C38_ProductDoesNotWrap ==
    (cop.step = "decoded" /\ cop.decoder = "features" /\ Len(cbuf) >= HeaderSize) =>
        LET h == ReadHeader(cbuf)
            product == MulLE(MulLE(Widen(h.width, 16), Widen(h.height, 16)),
                             Widen(h.channels, 16))
            payload_end == AddLE(AddLE(LE(HeaderSize, 16), Widen(h.filename_length, 16)),
                                 product)
        IN  /\ GtLE(payload_end, LE(Len(cbuf), 16)) => ~cres.ok
            /\ cres.ok => LE(Len(cres.value.image.data), 16) = product

====
